---- MODULE Spec2Model ----
(***************************************************************************)
(* renderapis: the connection manager (DatabaseManager), the application   *)
(* start-up, the connection gate in front of the Project routes and the    *)
(* Project resource (schema + CRUD handlers).                              *)
(*                                                                         *)
(* The mongoose driver is the environment: the outcome of connect() and    *)
(* close() and the connection events it emits are nondeterministic inputs. *)
(***************************************************************************)
EXTENDS Integers, Sequences, FiniteSets, TLC

(* ------------------------------ bounds -------------------------------- *)

\* driver events ('connected', 'error', 'disconnected', 'reconnected') the
\* environment delivers spontaneously in one run
MaxEvents == 2

\* disconnect() calls (SIGINT / SIGTERM / shutdown) in one run
MaxDisconnects == 1

\* requests sent to the Project routes in one run
MaxRequests == 2

\* the pieces a string handed to sanitizeInput is made of, at most
MaxTokens == 3

(* ------------------------- program constants -------------------------- *)

\* this.maxRetries = 5
maxRetries == 5

\* the length of an ObjectId written in hexadecimal: {24} in isValidObjectId
ObjectIdLength == 24

\* config.rateLimit.max: requests per window
rateLimitMax == 100

Environments == {"development", "production", "test"}

\* the entry point that is run: "app" is main() of the modular server
\* (initializeApp / createApp / setupRoutes), "legacy" is src/server.js
EntryPoints == {"app", "legacy"}

ConnectionStates == {"disconnected", "connecting", "connected", "error", "disconnecting"}

\* mongoose.connection.readyState
ReadyStates == {0, 1, 2, 3}

VARIABLES
    entry,               \* which server file is run
    environment,         \* config.server.environment
    isConnected,         \* DatabaseManager.isConnected
    connectionState,     \* DatabaseManager.connectionState
    connectionAttempts,  \* DatabaseManager.connectionAttempts
    timers,              \* pending setTimeout(() => this.connect(), retryDelay) callbacks
    readyState,          \* mongoose.connection.readyState (owned by the driver)
    initConnect,         \* the connect() awaited by initializeApp: idle/pending/resolved/rejected
    retryConnects,       \* connect() calls made by timers that still await mongoose.connect
    closing,             \* disconnect() calls that still await mongoose.connection.close
    appPc,               \* position of main(): boot / awaitConnect / listening / exited
    connectCalls,        \* history: connect() invocations before the first successful connection
    connectFailures,     \* history: failed connect() invocations before the first successful connection
    everConnected,       \* history: a successful connection has occurred
    events,              \* history: spontaneous driver events delivered
    disconnectCalls,     \* history: number of disconnect() invocations
    last,                \* history: the step that was just taken
    store,               \* the projects collection: the stored Project documents
    nextId,              \* the next system-assigned identifier (ObjectId)
    now,                 \* the clock (Date.now) as it was last read
    req,                 \* the request that passed into the Project router, if any
    res,                 \* the response to the latest request, if it has one
    gateLog,             \* history: what the latest request met in front of the router
    requests,            \* history: number of requests sent
    created,             \* history: the records returned by create, until their id is updated or deleted
    deleted,             \* history: the identifiers whose delete succeeded
    failure,             \* history: the error passed to errorHandler for the latest request, if any
    storageCalls,        \* history: the storage operations the latest request led to
    validated,           \* history: config.validate() has run (createApp)
    shutdown,            \* gracefulShutdown(signal): idle / awaitDisconnect / settled
    trigger,             \* the signal or process event that was received, if any
    exitCode,            \* the status the process exited with, once it has
    api,                 \* the outcome of the latest api-route request or manager read, if any
    sent,                \* history: requests the client has sent in the current rate-limit window
    hits,                \* the requests of the client the rate limiter has counted in the window
    exchange             \* the latest request that passed requestTimeout, and its response

connVars == <<isConnected, connectionState, connectionAttempts, timers>>
histVars == <<connectCalls, connectFailures, everConnected, events, disconnectCalls>>
vars == <<entry, environment, isConnected, connectionState, connectionAttempts, timers,
          readyState, initConnect, retryConnects, closing, appPc,
          connectCalls, connectFailures, everConnected, events, disconnectCalls, last,
          store, nextId, now, req, res, gateLog, requests, created, deleted, failure,
          storageCalls, validated, shutdown, trigger, exitCode, api, sent, hits,
          exchange>>
crudVars == <<store, nextId, now, req, res, gateLog, requests, created, deleted, failure,
          storageCalls>>
procVars == <<validated, shutdown, trigger, exitCode>>
apiVars == <<api, sent, hits, exchange>>

(* ------------------------------ config -------------------------------- *)

isDevelopment == environment = "development"

isProduction == environment = "production"

isTest == environment = "test"

(* ------------------------- DatabaseManager ---------------------------- *)

\* constructor: the fields of a fresh manager
ManagerInit ==
    /\ isConnected = FALSE
    /\ connectionState = "disconnected"
    /\ connectionAttempts = 0
    /\ timers = 0

\* mutant: the budget test of scheduleReconnection is off by one (> for >=)
ScheduleReconnection_OffByOne(attempts, pending) ==
    IF attempts > maxRetries
    THEN [attempts |-> attempts, timers |-> pending]
    ELSE [attempts |-> attempts + 1, timers |-> pending + 1]

\* mutant: scheduleReconnection counts the attempt before it tests the budget
ScheduleReconnection_CountsFirst(attempts, pending) ==
    IF attempts >= maxRetries
    THEN [attempts |-> attempts + 1, timers |-> pending]
    ELSE [attempts |-> attempts + 1, timers |-> pending + 1]

\* scheduleReconnection(): the attempt counter and the pending timers after the call
ScheduleReconnection(attempts, pending) ==
    IF attempts >= maxRetries
    THEN [attempts |-> attempts, timers |-> pending]
    ELSE [attempts |-> attempts + 1, timers |-> pending + 1]

\* mongoose.connection.on('connected')
ConnectedHandler ==
    /\ isConnected' = TRUE
    /\ connectionState' = "connected"
    /\ connectionAttempts' = 0
    /\ timers' = timers

\* mutant: the 'error' handler records the state of the 'disconnected' handler
ErrorHandler_WrongState ==
    /\ isConnected' = FALSE
    /\ connectionState' = "disconnected"
    /\ UNCHANGED <<connectionAttempts, timers>>

\* mongoose.connection.on('error')
ErrorHandler ==
    /\ isConnected' = FALSE
    /\ connectionState' = "error"
    /\ UNCHANGED <<connectionAttempts, timers>>

\* the guard of the reconnection in the 'disconnected' handler
DisconnectedReschedules == isProduction /\ connectionAttempts < maxRetries

\* mongoose.connection.on('disconnected')
DisconnectedHandler ==
    /\ isConnected' = FALSE
    /\ connectionState' = "disconnected"
    /\ LET s == IF DisconnectedReschedules
                THEN ScheduleReconnection(connectionAttempts, timers)
                ELSE [attempts |-> connectionAttempts, timers |-> timers]
       IN /\ connectionAttempts' = s.attempts
          /\ timers' = s.timers

\* mutant: the 'reconnected' handler sets the flag and leaves the state
ReconnectedHandler_FlagOnly ==
    /\ isConnected' = TRUE
    /\ UNCHANGED <<connectionState, connectionAttempts, timers>>

\* mongoose.connection.on('reconnected')
ReconnectedHandler ==
    /\ isConnected' = TRUE
    /\ connectionState' = "connected"
    /\ UNCHANGED <<connectionAttempts, timers>>

\* connect(), up to the await: mongoose.connect() is called
ConnectBegins ==
    /\ connectCalls' = IF everConnected THEN connectCalls ELSE connectCalls + 1
    /\ readyState' = IF readyState = 0 THEN 2 ELSE readyState

\* whether the catch branch of connect() schedules a reconnection
CatchReschedules == ~isDevelopment

\* connect(), the catch branch
ConnectCatch ==
    /\ isConnected' = FALSE
    /\ connectionState' = "error"
    /\ LET s == IF CatchReschedules
                THEN ScheduleReconnection(connectionAttempts, timers)
                ELSE [attempts |-> connectionAttempts, timers |-> timers]
       IN /\ connectionAttempts' = s.attempts
          /\ timers' = s.timers

\* mutant: the catch branch of connect() rethrows
ConnectSettlesAfterFailure_Rethrows == "rejected"

\* what the promise returned by connect() does when mongoose.connect rejected:
\* the catch branch handles the error, so the async function resolves
ConnectSettlesAfterFailure == "resolved"

\* mongoose.connection.close() inside disconnect(): what the driver does to its
\* readyState while closing
CloseBegins ==
    readyState' = IF readyState = 1 THEN 3 ELSE readyState

(* --------------------- Project schema (the model) --------------------- *)

Digits == <<"0", "1", "2", "3", "4", "5", "6", "7", "8", "9">>

\* the n-th ObjectId the service generates, as the text of 24 hexadecimal characters
\* that responses and :id path segments carry
ObjectIdText(n) ==
    [i \in 1..ObjectIdLength |-> IF i = ObjectIdLength THEN Digits[n + 1] ELSE "0"]

\* an optional value: <<>> when the field is absent, <<v>> when it holds v
None == <<>>

Some(v) == <<v>>

\* leading whitespace removed
RECURSIVE TrimLeft(_)
TrimLeft(s) ==
    IF s # <<>> /\ Head(s) = " " THEN TrimLeft(Tail(s)) ELSE s

\* trailing whitespace removed
RECURSIVE TrimRight(_)
TrimRight(s) ==
    IF s # <<>> /\ s[Len(s)] = " " THEN TrimRight(SubSeq(s, 1, Len(s) - 1)) ELSE s

\* mutant: the schema paths are declared without trim: true
Trim_Off(s) == s

\* trim: true on a String path: the setter that strips the value on assignment
Trim(s) == TrimLeft(TrimRight(s))

\* mutant: the enum of status has a fifth member
StatusEnum_Wide == {"planning", "in-progress", "completed", "on-hold", "archived"}

\* status.enum
StatusEnum == {"planning", "in-progress", "completed", "on-hold"}

\* mutant: the default of status is another member of the enum
StatusDefault_Other == "in-progress"

\* status.default
StatusDefault == "planning"

\* technologies.default
TechnologiesDefault == <<>>

\* new Project(fields): the setters and defaults of the schema paths; t is Date.now()
NewDocument(fields, t) ==
    [name         |-> IF fields.name = None THEN None ELSE Some(Trim(fields.name[1])),
     description  |-> IF fields.description = None THEN None
                      ELSE Some(Trim(fields.description[1])),
     technologies |-> IF fields.technologies = None THEN TechnologiesDefault
                      ELSE fields.technologies[1],
     status       |-> IF fields.status = None THEN StatusDefault ELSE fields.status[1],
     startDate    |-> t,
     id           |-> fields.id,
     createdAt    |-> fields.createdAt]

\* required: true on a String path: the value is present and not the empty string
CheckRequired(v) == v # None /\ Len(v[1]) > 0

\* doc.validate(): the paths whose validators fail
ValidationErrors(doc) ==
    (IF CheckRequired(doc.name) THEN {} ELSE {"name"}) \cup
    (IF CheckRequired(doc.description) THEN {} ELSE {"description"}) \cup
    (IF doc.status \in StatusEnum THEN {} ELSE {"status"})

\* timestamps: true, on insert: updatedAt is set to the instant of the insert and so
\* is createdAt unless the document already holds one; the document gets a generated
\* _id unless it already holds one
Inserted(doc, id, t) ==
    [id           |-> IF doc.id = None THEN id ELSE doc.id[1],
     name         |-> doc.name[1],
     description  |-> doc.description[1],
     technologies |-> doc.technologies,
     status       |-> doc.status,
     startDate    |-> doc.startDate,
     createdAt    |-> IF doc.createdAt = None THEN t ELSE doc.createdAt[1],
     updatedAt    |-> t]

\* mutant: an update rewrites createdAt as well
Touch_Created(doc, t) == [doc EXCEPT !.createdAt = t, !.updatedAt = t]

\* mutant: an update leaves updatedAt as it was
Touch_Off(doc, t) == doc

\* timestamps: true, on update: updatedAt is set to the instant of the update;
\* createdAt is immutable
Touch(doc, t) == [doc EXCEPT !.updatedAt = t]

(* ---------------------------- errorHandler ---------------------------- *)

\* the errors a storage operation raises: a schema validation error, a cast error
\* (a malformed value for a path), the duplicate-key error E11000 as the driver of
\* Mongoose 8 names it (MongoServerError) and as drivers before 4.0 named it
\* (MongoError), and any other error
Errors ==
    {[name |-> "ValidationError", code |-> 0],
     [name |-> "CastError", code |-> 0],
     [name |-> "MongoServerError", code |-> 11000],
     [name |-> "MongoError", code |-> 11000],
     [name |-> "Error", code |-> 0]}

\* errorHandler: the status it answers with
ErrorStatus(err) ==
    IF err.name = "ValidationError" THEN 400
    ELSE IF err.name = "CastError" THEN 400
    ELSE IF err.name = "MongoError" /\ err.code = 11000 THEN 400
    ELSE 500

\* errorHandler: the message of the envelope
ErrorMessage(err) ==
    IF err.name = "ValidationError" THEN "Validation error"
    ELSE IF err.name = "CastError" THEN "Invalid ID format"
    ELSE IF err.name = "MongoError" /\ err.code = 11000 THEN "Duplicate field value"
    ELSE "Internal server error"

(* ------------------- connection gate and Project routes --------------- *)

\* checkDatabaseConnection: TRUE when the middleware answers 503 itself
GateBlocks == ~isConnected

\* the Project router is mounted behind checkDatabaseConnection by setupRoutes
\* (modular server) and directly by src/server.js
MountedBehindGate == entry = "app"

\* mutant: the handlers pass the body on as it was submitted
Whitelist_PassAll(body) == body

\* the fields a caller may set (POST and PUT handlers): every other field of the
\* body is dropped
Whitelist(body) ==
    [body EXCEPT !.hacked = None, !.id = None, !.createdAt = None, !.updatedAt = None]

\* mutant: the repository does not check and always goes to storage
StorageAvailable_Unchecked == TRUE

\* the repository's own check that storage can be used
StorageAvailable == readyState = 1

\* the response envelope: data holds a Project, items the list of getAll, fields
\* the paths a validation error names
Response(status, kind, data, items, fields) ==
    [status |-> status, success |-> status < 400, kind |-> kind, data |-> data,
     items |-> items, count |-> Cardinality(items), fields |-> fields]

\* the characters [0-9a-fA-F]
HexDigits ==
    {"0", "1", "2", "3", "4", "5", "6", "7", "8", "9",
     "a", "b", "c", "d", "e", "f", "A", "B", "C", "D", "E", "F"}

\* mutant: the pattern accepts any 24 characters
IsValidObjectId_AnyCharacter(id) == Len(id) = ObjectIdLength

\* isValidObjectId: /^[0-9a-fA-F]{24}$/.test(id)
IsValidObjectId(id) ==
    /\ Len(id) = ObjectIdLength
    /\ \A i \in 1..Len(id) : id[i] \in HexDigits

\* the stored Project with this identifier, as a set of at most one document
FindById(id) == {d \in store : d.id = id}

\* the paths of an update whose validators fail (runValidators)
UpdateErrors(fields) ==
    (IF fields.name # None /\ Len(Trim(fields.name[1])) = 0 THEN {"name"} ELSE {}) \cup
    (IF fields.description # None /\ Len(Trim(fields.description[1])) = 0
     THEN {"description"} ELSE {}) \cup
    (IF fields.status # None /\ fields.status[1] \notin StatusEnum THEN {"status"} ELSE {})

\* the document after the update: the given paths are set, updatedAt is refreshed
Updated(doc, fields, t) ==
    Touch([doc EXCEPT
             !.name = IF fields.name = None THEN @ ELSE Trim(fields.name[1]),
             !.description = IF fields.description = None THEN @
                             ELSE Trim(fields.description[1]),
             !.technologies = IF fields.technologies = None THEN @
                              ELSE fields.technologies[1],
             !.status = IF fields.status = None THEN @ ELSE fields.status[1]],
          t)

\* POST /api/projects
CreateHandler(body) ==
    LET doc == NewDocument(Whitelist(body), now')
        errors == ValidationErrors(doc)
        inserted == Inserted(doc, ObjectIdText(nextId), now')
    IN  IF errors # {}
        THEN /\ res' = Some(Response(400, "ValidationFailure", None, {}, errors))
             /\ storageCalls' = 0
             /\ UNCHANGED <<store, nextId>>
        ELSE IF ~StorageAvailable
        THEN /\ res' = Some(Response(503, "StorageUnavailable", None, {}, {}))
             /\ storageCalls' = 0
             /\ UNCHANGED <<store, nextId>>
        ELSE /\ store' = store \cup {inserted}
             /\ nextId' = nextId + 1
             /\ storageCalls' = 1
             /\ res' = Some(Response(201, "Created", Some(inserted), {}, {}))

\* mutant: GET / answers 404 when no Project is stored
GetAllHandler_NotFoundWhenEmpty ==
    /\ res' = IF ~StorageAvailable
              THEN Some(Response(503, "StorageUnavailable", None, {}, {}))
              ELSE IF store = {}
              THEN Some(Response(404, "NotFound", None, {}, {}))
              ELSE Some(Response(200, "Ok", None, store, {}))
    /\ storageCalls' = IF StorageAvailable THEN 1 ELSE 0
    /\ UNCHANGED <<store, nextId>>

\* GET /api/projects
GetAllHandler ==
    /\ res' = IF ~StorageAvailable
              THEN Some(Response(503, "StorageUnavailable", None, {}, {}))
              ELSE Some(Response(200, "Ok", None, store, {}))
    /\ storageCalls' = IF StorageAvailable THEN 1 ELSE 0
    /\ UNCHANGED <<store, nextId>>

\* mutant: an identifier that matches no document is answered 200 with no data
IdFailure_EmptySuccess(id) ==
    IF ~IsValidObjectId(id) THEN Some(Response(400, "ValidationFailure", None, {}, {"id"}))
    ELSE IF ~StorageAvailable THEN Some(Response(503, "StorageUnavailable", None, {}, {}))
    ELSE IF FindById(id) = {} THEN Some(Response(200, "Ok", None, {}, {}))
    ELSE None

\* what every /:id handler answers before it touches a document, if anything
IdFailure(id) ==
    IF ~IsValidObjectId(id) THEN Some(Response(400, "ValidationFailure", None, {}, {"id"}))
    ELSE IF ~StorageAvailable THEN Some(Response(503, "StorageUnavailable", None, {}, {}))
    ELSE IF FindById(id) = {} THEN Some(Response(404, "NotFound", None, {}, {}))
    ELSE None

\* the lookups a /:id handler makes: none for a malformed identifier, none when
\* storage is unavailable
IdLookups(id) ==
    IF IsValidObjectId(id) /\ StorageAvailable THEN 1 ELSE 0

\* mutant: GET /:id answers with the defaults of a new Project in place of the
\* stored status
GetByIdHandler_Defaults(id) ==
    /\ res' = IF IdFailure(id) # None THEN IdFailure(id)
              ELSE Some(Response(200, "Ok",
                        Some([(CHOOSE d \in FindById(id) : TRUE) EXCEPT !.status = StatusDefault]),
                        {}, {}))
    /\ storageCalls' = IdLookups(id)
    /\ UNCHANGED <<store, nextId>>

\* GET /api/projects/:id
GetByIdHandler(id) ==
    /\ res' = IF IdFailure(id) # None THEN IdFailure(id)
              ELSE Some(Response(200, "Ok", Some(CHOOSE d \in FindById(id) : TRUE), {}, {}))
    /\ storageCalls' = IdLookups(id)
    /\ UNCHANGED <<store, nextId>>

\* PUT /api/projects/:id
UpdateHandler(id, body) ==
    LET fields == Whitelist(body)
        errors == UpdateErrors(fields)
    IN  IF ~IsValidObjectId(id) THEN
             /\ res' = IdFailure(id)
             /\ storageCalls' = 0
             /\ UNCHANGED <<store, nextId>>
        ELSE IF errors # {} THEN
             /\ res' = Some(Response(400, "ValidationFailure", None, {}, errors))
             /\ storageCalls' = 0
             /\ UNCHANGED <<store, nextId>>
        ELSE IF IdFailure(id) # None THEN
             /\ res' = IdFailure(id)
             /\ storageCalls' = IdLookups(id)
             /\ UNCHANGED <<store, nextId>>
        ELSE LET old == CHOOSE d \in FindById(id) : TRUE
                 new == Updated(old, fields, now')
             IN  /\ store' = (store \ {old}) \cup {new}
                 /\ res' = Some(Response(200, "Ok", Some(new), {}, {}))
                 /\ storageCalls' = 1
                 /\ UNCHANGED nextId

\* mutant: DELETE /:id answers 200 and keeps the document (a soft delete)
DeleteHandler_Soft(id) ==
    IF IdFailure(id) # None
    THEN /\ res' = IdFailure(id)
         /\ storageCalls' = IdLookups(id)
         /\ UNCHANGED <<store, nextId>>
    ELSE /\ res' = Some(Response(200, "Deleted", Some(CHOOSE d \in FindById(id) : TRUE), {}, {}))
         /\ storageCalls' = 1
         /\ UNCHANGED <<store, nextId>>

\* DELETE /api/projects/:id
DeleteHandler(id) ==
    IF IdFailure(id) # None
    THEN /\ res' = IdFailure(id)
         /\ storageCalls' = IdLookups(id)
         /\ UNCHANGED <<store, nextId>>
    ELSE LET old == CHOOSE d \in FindById(id) : TRUE
         IN  /\ store' = store \ {old}
             /\ res' = Some(Response(200, "Deleted", Some(old), {}, {}))
             /\ storageCalls' = 1
             /\ UNCHANGED nextId

(* --------------------------- request inputs --------------------------- *)

\* text inputs: absent, the empty string, whitespace only, text in whitespace
NameInputs == {None, Some(<<" ">>), Some(<<" ", "a", " ">>)}

DescriptionInputs == {None, Some(<<>>), Some(<<"d", " ">>)}

StatusInputs == {None, Some("completed"), Some("archived")}

TechnologiesInputs == {None, Some(<<"js">>)}

\* a field that is not in the schema ("hacked")
ExtraInputs == {None, Some("x")}

\* a value a caller submits for a system-managed timestamp (createdAt, updatedAt)
SystemInputs == {None, Some(9)}

\* a value a caller submits for the identifier
IdInputs == {None, Some(ObjectIdText(9))}

\* what a body carries besides the schema fields: nothing, the field "hacked", or
\* values for the system-managed fields
Extras ==
    {e \in [hacked : ExtraInputs, id : IdInputs, createdAt : SystemInputs,
            updatedAt : SystemInputs] :
        /\ (e.id = None) = (e.createdAt = None)
        /\ e.createdAt = e.updatedAt
        /\ (e.hacked = None \/ e.id = None)}

NoExtras == [hacked |-> None, id |-> None, createdAt |-> None, updatedAt |-> None]

\* a request body: the schema fields with the extras
Body(name, description, technologies, status, extra) ==
    [name |-> name, description |-> description, technologies |-> technologies,
     status |-> status, hacked |-> extra.hacked, id |-> extra.id,
     createdAt |-> extra.createdAt, updatedAt |-> extra.updatedAt]

\* bodies of POST /api/projects: every combination of name and description, and
\* the valid name and description with each status, with technologies and with the
\* extras
CreateBodies ==
    {Body(n, d, None, None, NoExtras) : n \in NameInputs, d \in DescriptionInputs} \cup
    {Body(Some(<<" ", "a", " ">>), Some(<<"d", " ">>), None, s, NoExtras) :
        s \in StatusInputs} \cup
    {Body(Some(<<" ", "a", " ">>), Some(<<"d", " ">>), t, None, NoExtras) :
        t \in TechnologiesInputs} \cup
    {Body(Some(<<" ", "a", " ">>), Some(<<"d", " ">>), None, None, x) : x \in Extras}

\* bodies of PUT /api/projects/:id
UpdateBodies ==
    {Body(n, None, None, s, x) :
        n \in {None, Some(<<"b", " ">>)}, s \in StatusInputs,
        x \in {NoExtras}} \cup
    {Body(None, None, None, Some("completed"), x) : x \in Extras}

NoBody ==
    Body(None, None, None, None, NoExtras)

\* :id path segments a client sends: the identifier assigned by an earlier run, the
\* one this run assigns first (or never), one that is a character short and one of
\* the right length with a character that is not hexadecimal
RequestIds ==
    {ObjectIdText(1),
     ObjectIdText(2),
     SubSeq(ObjectIdText(1), 1, ObjectIdLength - 1),
     [ObjectIdText(1) EXCEPT ![1] = "g"]}

Routes == {"POST /", "GET /", "GET /:id", "PUT /:id", "DELETE /:id"}

\* the requests a client may send: a route with the :id and the body it uses
Requests ==
    {[route |-> "POST /", id |-> <<>>, body |-> b] : b \in CreateBodies} \cup
    {[route |-> "GET /", id |-> <<>>, body |-> NoBody]} \cup
    {[route |-> r, id |-> i, body |-> NoBody] :
        r \in {"GET /:id", "DELETE /:id"}, i \in RequestIds} \cup
    {[route |-> "PUT /:id", id |-> i, body |-> b] :
        i \in {ObjectIdText(1), ObjectIdText(2)}, b \in UpdateBodies} \cup
    {[route |-> "PUT /:id", id |-> i, body |-> Body(None, None, None, Some("completed"), NoExtras)] :
        i \in RequestIds}

(* ------------------------------- Init --------------------------------- *)

\* the collection outlives the process: when the process starts at instant 1 it
\* holds a Project stored by an earlier run of the service (identifier 1, written at
\* instant 0)
StoredBefore ==
    [id           |-> ObjectIdText(1),
     name         |-> <<"s">>,
     description  |-> <<"e">>,
     technologies |-> <<"go">>,
     status       |-> "on-hold",
     startDate    |-> 0,
     createdAt    |-> 0,
     updatedAt    |-> 0]

Init ==
    /\ entry \in EntryPoints
    /\ environment \in Environments
    /\ ManagerInit
    /\ readyState = 0
    /\ initConnect = "idle"
    /\ retryConnects = 0
    /\ closing = 0
    /\ appPc = "boot"
    /\ connectCalls = 0
    /\ connectFailures = 0
    /\ everConnected = FALSE
    /\ events = 0
    /\ disconnectCalls = 0
    /\ last = "Init"
    /\ store = {StoredBefore}
    /\ nextId = 2
    /\ now = 1
    /\ req = None
    /\ res = None
    /\ gateLog = None
    /\ requests = 0
    /\ created = {}
    /\ deleted = {}
    /\ failure = None
    /\ storageCalls = 0
    /\ validated = FALSE
    /\ shutdown = "idle"
    /\ trigger = None
    /\ exitCode = None
    /\ api = None
    /\ sent = 0
    /\ hits = 0
    /\ exchange = None

(* ------------------------------ start-up ------------------------------ *)

\* main() -> initializeApp(): await database.connect()
InitializeApp ==
    /\ entry = "app"
    /\ appPc = "boot"
    /\ appPc' = "awaitConnect"
    /\ initConnect' = "pending"
    /\ ConnectBegins
    /\ last' = "InitializeApp"
    /\ UNCHANGED <<crudVars, procVars, apiVars>>
    /\ UNCHANGED <<entry, environment, connVars, retryConnects, closing,
                   connectFailures, everConnected, events, disconnectCalls>>

\* initializeApp() after the await: createApp(), whose first statement is
\* config.validate(), then setupGracefulShutdown(); a rejected connect() would
\* reach main()'s catch and process.exit(1)
InitializeAppReturns ==
    /\ appPc = "awaitConnect"
    /\ initConnect \in {"resolved", "rejected"}
    /\ appPc' = IF initConnect = "resolved" THEN "initialized" ELSE "exited"
    /\ validated' = (validated \/ initConnect = "resolved")
    /\ exitCode' = IF initConnect = "resolved" THEN exitCode ELSE Some(1)
    /\ last' = "InitializeAppReturns"
    /\ UNCHANGED <<crudVars, shutdown, trigger, apiVars>>
    /\ UNCHANGED <<entry, environment, connVars, readyState, initConnect, retryConnects,
                   closing, histVars>>

\* startServer(app): app.listen succeeds, or fails (EADDRINUSE) and the catch of
\* main() calls process.exit(1)
StartServer ==
    /\ appPc = "initialized"
    /\ \E listening \in BOOLEAN :
          /\ appPc' = IF listening THEN "listening" ELSE "exited"
          /\ exitCode' = IF listening THEN exitCode ELSE Some(1)
          /\ last' = IF listening THEN "StartServer" ELSE "StartServerFails"
    /\ UNCHANGED <<crudVars, validated, shutdown, trigger, apiVars>>
    /\ UNCHANGED <<entry, environment, connVars, readyState, initConnect, retryConnects,
                   closing, histVars>>

\* src/server.js: mongoose.connect(MONGODB_URI) is not awaited and app.listen follows
LegacyStart ==
    /\ entry = "legacy"
    /\ appPc = "boot"
    /\ appPc' = "listening"
    /\ readyState' = 2
    /\ last' = "LegacyStart"
    /\ UNCHANGED <<crudVars, procVars, apiVars>>
    /\ UNCHANGED <<entry, environment, connVars, initConnect, retryConnects, closing, histVars>>

Running == appPc # "exited"

(* ------------------------- connect() outcomes ------------------------- *)

\* a pending setTimeout callback of scheduleReconnection fires: this.connect()
TimerFires ==
    /\ Running
    /\ timers > 0
    /\ timers' = timers - 1
    /\ retryConnects' = retryConnects + 1
    /\ ConnectBegins
    /\ last' = "TimerFires"
    /\ UNCHANGED <<crudVars, procVars, apiVars>>
    /\ UNCHANGED <<entry, environment, isConnected, connectionState, connectionAttempts,
                   initConnect, closing, appPc, connectFailures, everConnected, events,
                   disconnectCalls>>

\* the connect() calls that await mongoose.connect
PendingCallers ==
    (IF initConnect = "pending" THEN {"init"} ELSE {}) \cup
    (IF retryConnects > 0 THEN {"timer"} ELSE {})

\* the caller's await settles
Settle(who, how) ==
    /\ initConnect' = IF who = "init" THEN how ELSE initConnect
    /\ retryConnects' = IF who = "timer" THEN retryConnects - 1 ELSE retryConnects

\* mongoose.connect resolves: the driver is connected (it emits 'connected' when its
\* readyState changes) and connect() returns through the try branch
ConnectSucceeds ==
    /\ Running
    /\ \E who \in PendingCallers :
          /\ Settle(who, "resolved")
    /\ readyState' = 1
    /\ IF readyState # 1 THEN ConnectedHandler ELSE UNCHANGED connVars
    /\ everConnected' = TRUE
    /\ last' = "ConnectSucceeds"
    /\ UNCHANGED <<crudVars, procVars, apiVars>>
    /\ UNCHANGED <<entry, environment, closing, appPc, connectCalls, connectFailures,
                   events, disconnectCalls>>

\* mongoose.connect rejects: connect() runs its catch branch
ConnectFails ==
    /\ Running
    /\ readyState # 1
    /\ \E who \in PendingCallers :
          /\ Settle(who, ConnectSettlesAfterFailure)
    /\ readyState' = 0
    /\ ConnectCatch
    /\ connectFailures' = IF everConnected THEN connectFailures ELSE connectFailures + 1
    /\ last' = "ConnectFails"
    /\ UNCHANGED <<crudVars, procVars, apiVars>>
    /\ UNCHANGED <<entry, environment, closing, appPc, connectCalls, everConnected,
                   events, disconnectCalls>>

(* --------------------------- driver events ---------------------------- *)

\* the driver may deliver an event: the manager of the modular server listens
CanDeliver ==
    /\ Running
    /\ appPc # "boot"
    /\ events < MaxEvents

Listening(handler) ==
    IF entry = "app" THEN handler ELSE UNCHANGED connVars

OnConnected ==
    /\ CanDeliver
    /\ readyState' = 1
    /\ Listening(ConnectedHandler)
    /\ everConnected' = TRUE
    /\ events' = events + 1
    /\ last' = "OnConnected"
    /\ UNCHANGED <<crudVars, procVars, apiVars>>
    /\ UNCHANGED <<entry, environment, initConnect, retryConnects, closing, appPc,
                   connectCalls, connectFailures, disconnectCalls>>

OnError ==
    /\ CanDeliver
    /\ Listening(ErrorHandler)
    /\ events' = events + 1
    /\ last' = "OnError"
    /\ UNCHANGED <<crudVars, procVars, apiVars>>
    /\ UNCHANGED <<entry, environment, readyState, initConnect, retryConnects, closing,
                   appPc, connectCalls, connectFailures, everConnected, disconnectCalls>>

OnDisconnected ==
    /\ CanDeliver
    /\ readyState' = 0
    /\ Listening(DisconnectedHandler)
    /\ events' = events + 1
    /\ last' = "OnDisconnected"
    /\ UNCHANGED <<crudVars, procVars, apiVars>>
    /\ UNCHANGED <<entry, environment, initConnect, retryConnects, closing, appPc,
                   connectCalls, connectFailures, everConnected, disconnectCalls>>

\* 'reconnected' is emitted when a connection that had been established is regained
OnReconnected ==
    /\ CanDeliver
    /\ everConnected
    /\ readyState' = 1
    /\ Listening(ReconnectedHandler)
    /\ events' = events + 1
    /\ last' = "OnReconnected"
    /\ UNCHANGED <<crudVars, procVars, apiVars>>
    /\ UNCHANGED <<entry, environment, initConnect, retryConnects, closing, appPc,
                   connectCalls, connectFailures, everConnected, disconnectCalls>>

(* ----------------------------- disconnect() --------------------------- *)

\* disconnect() is called (the manager's SIGINT / SIGTERM handlers): up to the await
DisconnectCall ==
    /\ Running
    /\ entry = "app"
    /\ appPc # "boot"
    /\ disconnectCalls < MaxDisconnects
    /\ disconnectCalls' = disconnectCalls + 1
    /\ closing' = closing + 1
    /\ CloseBegins
    /\ last' = "DisconnectCall"
    /\ UNCHANGED <<crudVars, procVars, apiVars>>
    /\ UNCHANGED <<entry, environment, connVars, initConnect, retryConnects, appPc,
                   connectCalls, connectFailures, everConnected, events>>

\* close() resolves: the driver is disconnected (it emits 'disconnected' when its
\* readyState changes) and disconnect() returns through the try branch
CloseSucceeds ==
    /\ Running
    /\ closing > 0
    /\ closing' = closing - 1
    /\ readyState' = 0
    /\ IF readyState # 0 THEN DisconnectedHandler ELSE UNCHANGED connVars
    /\ last' = "DisconnectReturns"
    /\ UNCHANGED <<crudVars, procVars, apiVars>>
    /\ UNCHANGED <<entry, environment, initConnect, retryConnects, appPc, histVars>>

\* close() rejects: disconnect() logs the error in its catch branch and returns
CloseFails ==
    /\ Running
    /\ closing > 0
    /\ closing' = closing - 1
    /\ last' = "DisconnectReturnsAfterError"
    /\ UNCHANGED <<crudVars, procVars, apiVars>>
    /\ UNCHANGED <<entry, environment, connVars, readyState, initConnect, retryConnects,
                   appPc, histVars>>

(* ------------------------- signals and shutdown ----------------------- *)

\* the process events gracefulShutdown is registered for
Triggers == {"SIGTERM", "SIGINT", "uncaughtException", "unhandledRejection"}

\* the signals the manager registers a handler for in setupEventHandlers
Signals == {"SIGINT", "SIGTERM"}

\* setupGracefulShutdown() has run: initializeApp calls it after
\* await database.connect() and createApp()
ShutdownRegistered == appPc \in {"initialized", "listening"}

\* what happens to a process event of kind `kind` that only the listeners
\* registered at module load can hear: SIGINT and SIGTERM have the manager's
\* listener, which does not exit; an uncaught exception without a listener ends
\* the process, and so does an unhandled rejection (the runtime Mongoose 8 needs
\* raises it as an uncaught exception)
DefaultExits(kind) == kind \notin Signals

\* a signal or a process event arrives while main() is suspended or done (the
\* synchronous start of main() is not interrupted). The listeners run in the
\* order of their registration: the manager's handler of SIGINT / SIGTERM calls
\* disconnect() and nothing else; gracefulShutdown, once registered, calls
\* disconnect() and awaits it
Receive ==
    /\ Running
    /\ entry = "app"
    /\ appPc # "boot"
    /\ trigger = None
    /\ \E kind \in Triggers :
          /\ trigger' = Some(kind)
          /\ LET ofManager == IF kind \in Signals THEN 1 ELSE 0
                 ofShutdown == IF ShutdownRegistered THEN 1 ELSE 0
             IN  /\ disconnectCalls' = disconnectCalls + ofManager + ofShutdown
                 /\ closing' = closing + ofManager
                 /\ IF ofManager + ofShutdown > 0
                    THEN CloseBegins
                    ELSE readyState' = readyState
          /\ shutdown' = IF ShutdownRegistered THEN "awaitDisconnect" ELSE shutdown
          /\ appPc' = IF ~ShutdownRegistered /\ DefaultExits(kind) THEN "exited" ELSE appPc
          /\ exitCode' = IF ~ShutdownRegistered /\ DefaultExits(kind) THEN Some(1)
                         ELSE exitCode
    /\ last' = "Receive"
    /\ UNCHANGED <<entry, environment, connVars, initConnect, retryConnects,
                   connectCalls, connectFailures, everConnected, events,
                   crudVars, validated, apiVars>>

\* mutant: disconnect() lets the error of close() through to its caller
DisconnectRejects_Rethrows(closed) == ~closed

\* disconnect(): whether the promise it returns rejects. The await of close() is
\* inside try and the catch branch only logs, so it never does
DisconnectRejects(closed) == FALSE

\* the disconnect() that gracefulShutdown awaits returns: close() resolved and the
\* driver is disconnected, or close() rejected and disconnect() logged the error.
\* gracefulShutdown goes on after the await ("settled"), or to its catch branch
\* ("failed") if the promise rejected
ShutdownSettles ==
    /\ Running
    /\ shutdown = "awaitDisconnect"
    /\ \E closed \in BOOLEAN :
          /\ shutdown' = IF DisconnectRejects(closed) THEN "failed" ELSE "settled"
          /\ IF closed
             THEN /\ readyState' = 0
                  /\ IF readyState # 0 THEN DisconnectedHandler ELSE UNCHANGED connVars
             ELSE UNCHANGED <<connVars, readyState>>
    /\ last' = "ShutdownSettles"
    /\ UNCHANGED <<entry, environment, initConnect, retryConnects, closing, appPc,
                   histVars, crudVars, validated, trigger, exitCode, apiVars>>

\* gracefulShutdown after the await: process.exit(0); its catch branch:
\* process.exit(1)
ProcessExit ==
    /\ Running
    /\ shutdown \in {"settled", "failed"}
    /\ appPc' = "exited"
    /\ exitCode' = IF shutdown = "settled" THEN Some(0) ELSE Some(1)
    /\ last' = "ProcessExit"
    /\ UNCHANGED <<entry, environment, connVars, readyState, initConnect, retryConnects,
                   closing, histVars, crudVars, validated, shutdown, trigger, apiVars>>

(* ------------------------------ requests ------------------------------ *)

\* the fields of a body that are not schema fields a caller may set
Unlisted(body) ==
    {f \in {"hacked", "id", "createdAt", "updatedAt"} : body[f] # None}

\* the handler of the request gets as far as its storage operation: the payload and
\* the :id passed the checks that come before it
ReachesStorage(r) ==
    CASE r.route = "POST /"      -> ValidationErrors(NewDocument(Whitelist(r.body), now)) = {}
      [] r.route = "GET /"       -> TRUE
      [] r.route = "GET /:id"    -> IsValidObjectId(r.id)
      [] r.route = "PUT /:id"    -> IsValidObjectId(r.id) /\ UpdateErrors(Whitelist(r.body)) = {}
      [] r.route = "DELETE /:id" -> IsValidObjectId(r.id)

\* a request to /api/projects arrives: checkDatabaseConnection where it is mounted,
\* then the router
SendRequest ==
    /\ appPc = "listening"
    /\ req = None
    /\ requests < MaxRequests
    /\ requests' = requests + 1
    /\ IF MountedBehindGate /\ GateBlocks
       THEN \E route \in Routes :
               /\ res' = Some(Response(503, "StorageUnavailable", None, {}, {}))
               /\ req' = None
               /\ gateLog' = Some([route |-> route, id |-> <<>>, extra |-> {},
                                   isConnected |-> isConnected,
                                   status |-> 503, success |-> FALSE, nexts |-> 0])
               /\ failure' = None
               /\ storageCalls' = 0
               /\ last' = "GateBlocked"
       ELSE \E r \in Requests :
               /\ res' = None
               /\ req' = Some(r)
               /\ gateLog' = Some([route |-> r.route, id |-> r.id,
                                   extra |-> Unlisted(r.body),
                                   isConnected |-> isConnected,
                                   status |-> 0, success |-> TRUE, nexts |-> 1])
               /\ failure' = None
               /\ storageCalls' = 0
               /\ last' = "GatePassed"
    /\ UNCHANGED <<entry, environment, connVars, readyState, initConnect, retryConnects,
                   closing, appPc, histVars, store, nextId, now, created, deleted>>
    /\ UNCHANGED <<procVars, apiVars>>

\* the route handler of the request runs; the handlers that write read the clock
\* (Date.now()), which shows the instant of the previous reading or a later one
Handle ==
    /\ appPc = "listening"
    /\ req # None
    /\ \E elapsed \in {0, 1} :
          now' = IF req[1].route \in {"POST /", "PUT /:id"} THEN now + elapsed ELSE now
    /\ LET r == req[1]
       IN  CASE r.route = "POST /"      -> CreateHandler(r.body)
             [] r.route = "GET /"       -> GetAllHandler
             [] r.route = "GET /:id"    -> GetByIdHandler(r.id)
             [] r.route = "PUT /:id"    -> UpdateHandler(r.id, r.body)
             [] r.route = "DELETE /:id" -> DeleteHandler(r.id)
    /\ LET r == req[1]
           answer == res'[1]
       IN  /\ created' =
                 IF r.route = "POST /" /\ answer.status = 201
                 THEN created \cup {answer.data[1]}
                 ELSE IF r.route \in {"PUT /:id", "DELETE /:id"} /\ answer.status = 200
                 THEN {c \in created : c.id # r.id}
                 ELSE created
           /\ deleted' =
                 IF r.route = "DELETE /:id" /\ answer.status = 200
                 THEN deleted \cup {r.id}
                 ELSE deleted
    /\ failure' = None
    /\ req' = None
    /\ last' = "Handled"
    /\ UNCHANGED <<entry, environment, connVars, readyState, initConnect, retryConnects,
                   closing, appPc, histVars, gateLog, requests>>
    /\ UNCHANGED <<procVars, apiVars>>

\* the storage operation of the route handler is made and fails with an error the
\* handler does not answer itself: the error is passed to errorHandler, which
\* setupErrorHandling mounts last in createApp (src/server.js mounts no error
\* handler)
HandleFails ==
    /\ appPc = "listening"
    /\ entry = "app"
    /\ req # None
    /\ ReachesStorage(req[1])
    /\ StorageAvailable
    /\ \E err \in Errors :
          /\ failure' = Some(err)
          /\ storageCalls' = 1
          /\ res' = Some(Response(ErrorStatus(err), ErrorMessage(err), None, {}, {}))
    /\ req' = None
    /\ last' = "HandleFails"
    /\ UNCHANGED <<entry, environment, connVars, readyState, initConnect, retryConnects,
                   closing, appPc, histVars, gateLog, requests, store, nextId, now,
                   created, deleted>>
    /\ UNCHANGED <<procVars, apiVars>>

(* ------------------------ errors and envelopes ----------------------- *)

\* err.message and err.stack of an error: two of each, the texts themselves do not
\* matter
Messages == {"m1", "m2"}

Stacks == {"s1", "s2"}

\* err.errors of an error Mongoose raises: a ValidationError carries the messages
\* of the paths that failed, the other errors have no such property
FieldErrors(name) ==
    IF name = "ValidationError" THEN Some({"Project name is required"}) ELSE None

\* the errors a handler or a middleware can raise, with their message and stack:
\* those of Mongoose and of the driver, and an error that is only named
\* 'ValidationError' (raised by other code) and has no errors property
Raised ==
    {[name |-> e.name, code |-> e.code, message |-> t[1], stack |-> t[2],
      errors |-> FieldErrors(e.name)] :
        e \in Errors, t \in {<<"m1", "s1">>, <<"m2", "s2">>}}
    \cup
    {[name |-> "ValidationError", code |-> 0, message |-> "m1", stack |-> "s1",
      errors |-> None]}

\* errorHandler, the ValidationError branch: Object.values(err.errors) throws a
\* TypeError when err.errors is undefined
ErrorHandlerThrows(err) ==
    err.name = "ValidationError" /\ err.errors = None

\* an error thrown inside errorHandler goes to the next error handler; none is
\* registered after it, so the final handler of Express answers 500 with an HTML
\* page: the status text in production, the stack of the TypeError otherwise
FinalHandlerBody ==
    [html |-> IF isProduction THEN "Internal Server Error" ELSE "TypeError stack"]

\* errorHandler: the JSON body it answers with
ErrorEnvelope(err, t) ==
    [success   |-> FALSE,
     message   |-> ErrorMessage([name |-> err.name, code |-> err.code]),
     timestamp |-> t,
     error     |-> IF isDevelopment THEN Some(err.message) ELSE None,
     stack     |-> IF isDevelopment THEN Some(err.stack) ELSE None,
     details   |-> IF err.name = "ValidationError" THEN err.errors ELSE None]

\* GET /health, the catch branch: the JSON body of its 500
HealthCatch(err, t) ==
    [success   |-> FALSE,
     status    |-> "Health check failed",
     error     |-> Some(err.message),
     timestamp |-> t]

\* GET /version, the catch branch: the JSON body of its 500
VersionCatch(err, t) ==
    [success   |-> FALSE,
     message   |-> "Failed to retrieve version information",
     error     |-> Some(err.message),
     timestamp |-> t]

(* ------------------- DatabaseManager: the reads ---------------------- *)

\* getReadyStateText(state)
GetReadyStateText(state) ==
    CASE state = 0 -> "disconnected"
      [] state = 1 -> "connected"
      [] state = 2 -> "connecting"
      [] state = 3 -> "disconnecting"
      [] OTHER     -> "unknown"

\* mutant: getStatus() reports the driver's ready state as the manager's state
GetStatus_OfDriver ==
    [isConnected        |-> readyState = 1,
     state              |-> GetReadyStateText(readyState),
     readyState         |-> readyState,
     readyStateText     |-> GetReadyStateText(readyState),
     connectionAttempts |-> connectionAttempts]

\* getStatus(): the object it returns (host, port and name are fields of the
\* driver's connection that the model does not carry)
GetStatus ==
    [isConnected        |-> isConnected,
     state              |-> connectionState,
     readyState         |-> readyState,
     readyStateText     |-> GetReadyStateText(readyState),
     connectionAttempts |-> connectionAttempts]

\* how mongoose.connection.db.admin().ping() settles
PingOutcomes == {"resolves", "rejects"}

\* mutant: isHealthy() without its try / catch and without the test of isConnected
IsHealthy_Unguarded(connected, ping) ==
    [result |-> (ping = "resolves"),
     pings  |-> 1,
     thrown |-> IF ping = "resolves" THEN None ELSE Some("ping failed")]

\* isHealthy(), called while isConnected = connected: what it returns, the pings it
\* issues and the exception that leaves it, if any
IsHealthy(connected, ping) ==
    IF ~connected
    THEN [result |-> FALSE, pings |-> 0, thrown |-> None]
    ELSE [result |-> (ping = "resolves"), pings |-> 1, thrown |-> None]

\* db.stats() of the driver: what it resolves with
DriverStats ==
    [collections |-> 1, objects |-> Cardinality(store), dataSize |-> 3,
     storageSize |-> 4, indexes |-> 1, indexSize |-> 2]

\* how mongoose.connection.db.stats() settles: with the statistics, or rejected
\* with an error
StatsOutcomes ==
    {[ok |-> TRUE, message |-> ""]} \cup {[ok |-> FALSE, message |-> m] : m \in Messages}

\* mutant: getStats() without its try / catch and without the test of isConnected
GetStats_Unguarded(connected, query) ==
    IF query.ok
    THEN [error      |-> None,
          statistics |-> Some([collections |-> DriverStats.collections,
                               documents   |-> DriverStats.objects,
                               dataSize    |-> DriverStats.dataSize,
                               storageSize |-> DriverStats.storageSize,
                               indexes     |-> DriverStats.indexes,
                               indexSize   |-> DriverStats.indexSize]),
          queries    |-> 1,
          thrown     |-> None]
    ELSE [error |-> None, statistics |-> None, queries |-> 1,
          thrown |-> Some(query.message)]

\* getStats(), called while isConnected = connected: what it returns, the queries it
\* issues and the exception that leaves it, if any
GetStats(connected, query) ==
    IF ~connected
    THEN [error |-> Some("Database not connected"), statistics |-> None, queries |-> 0,
          thrown |-> None]
    ELSE IF query.ok
    THEN [error      |-> None,
          statistics |-> Some([collections |-> DriverStats.collections,
                               documents   |-> DriverStats.objects,
                               dataSize    |-> DriverStats.dataSize,
                               storageSize |-> DriverStats.storageSize,
                               indexes     |-> DriverStats.indexes,
                               indexSize   |-> DriverStats.indexSize]),
          queries    |-> 1,
          thrown     |-> None]
    ELSE [error |-> Some(query.message), statistics |-> None, queries |-> 1,
          thrown |-> None]

\* what is recorded of a request to the api routes, of an error that reached an
\* error handler or of a read of the manager: op names it, pc is "done" once it has
\* answered, thrown is the error it met, if any
Outcome(op, pc, status, body, thrown) ==
    [op |-> op, pc |-> pc, status |-> status, body |-> body, thrown |-> thrown]

\* a caller reads the manager (the exported getStatus)
CallGetStatus ==
    /\ Running
    /\ entry = "app"
    /\ api' = Some(Outcome("getStatus", "done", 0, GetStatus, None))
    /\ last' = "GetStatus"
    /\ UNCHANGED <<entry, environment, connVars, readyState, initConnect, retryConnects,
                   closing, appPc, histVars, crudVars, procVars, sent, hits, exchange>>

\* a caller awaits the exported isHealthy(): the ping, if one is issued, settles
\* as `settled` says
CallIsHealthy ==
    /\ Running
    /\ entry = "app"
    /\ \E ping \in PingOutcomes :
          api' = Some(Outcome("isHealthy", "done", 0,
                              [returned |-> IsHealthy(isConnected, ping), settled |-> ping],
                              None))
    /\ last' = "IsHealthy"
    /\ UNCHANGED <<entry, environment, connVars, readyState, initConnect, retryConnects,
                   closing, appPc, histVars, crudVars, procVars, sent, hits, exchange>>

\* a caller awaits the exported getStats(): the query, if one is issued, settles
\* as `settled` says
CallGetStats ==
    /\ Running
    /\ entry = "app"
    /\ \E query \in StatsOutcomes :
          api' = Some(Outcome("getStats", "done", 0,
                              [returned |-> GetStats(isConnected, query), settled |-> query],
                              None))
    /\ last' = "GetStats"
    /\ UNCHANGED <<entry, environment, connVars, readyState, initConnect, retryConnects,
                   closing, appPc, histVars, crudVars, procVars, sent, hits, exchange>>

(* ----------------------------- api routes ----------------------------- *)

\* config.health.enableDetailedChecks: process.env.HEALTH_DETAILED === 'true' || true
enableDetailedChecks == TRUE

\* the errors the try block of a route handler can meet: plain errors
PlainErrors == {e \in Raised : e.name = "Error"}

\* how the try block of a handler ends: normally, or by throwing
TryOutcomes == {None} \cup {Some(e) : e \in PlainErrors}

\* the api routes are served by the modular server once it listens, one request
\* at a time
CanServe ==
    /\ appPc = "listening"
    /\ entry = "app"
    /\ IF api = None THEN TRUE ELSE api[1].pc = "done"

\* GET /health: the health object that res.json sends
HealthBody(connected, healthy, state, stats, t) ==
    [success   |-> TRUE,
     status    |-> "Server is running",
     timestamp |-> t,
     connected |-> connected,
     healthy   |-> healthy,
     state     |-> state,
     stats     |-> stats]

\* mutant: GET /health answers 503 itself when the manager is not connected
HealthResponds_Gated(body, threw) ==
    IF ~isConnected
    THEN Outcome("/health", "done", 503, [body EXCEPT !.success = FALSE], None)
    ELSE IF threw = None
    THEN Outcome("/health", "done", 200, body, None)
    ELSE Outcome("/health", "done", 500, HealthCatch(threw[1], now), threw)

\* GET /health: res.json(health), or the catch branch when the try block threw
HealthResponds(body, threw) ==
    IF threw = None
    THEN Outcome("/health", "done", 200, body, None)
    ELSE Outcome("/health", "done", 500, HealthCatch(threw[1], now), threw)

\* GET /health arrives: getStatus(), then await isHealthy(). Without a connection
\* isHealthy() returns at once and no statistics are read, so the handler answers;
\* with one the handler waits for the ping
GetHealth ==
    /\ CanServe
    /\ IF isConnected
       THEN api' = Some(Outcome("/health", "ping", 0,
                                HealthBody(isConnected, FALSE, GetStatus.state, None, now),
                                None))
       ELSE \E threw \in TryOutcomes :
               api' = Some(HealthResponds(
                          HealthBody(isConnected, IsHealthy(FALSE, "rejects").result,
                                     GetStatus.state, None, now),
                          threw))
    /\ last' = "GetHealth"
    /\ UNCHANGED <<entry, environment, connVars, readyState, initConnect, retryConnects,
                   closing, appPc, histVars, crudVars, procVars, sent, hits, exchange>>

\* GET /health, the ping of isHealthy() settles: the health object is built with
\* database.isConnected as it is now; the statistics are awaited when the manager
\* is still connected, otherwise the handler answers
HealthPingSettles ==
    /\ api # None
    /\ api[1].pc = "ping"
    /\ \E ping \in PingOutcomes, threw \in TryOutcomes :
          LET health == HealthBody(isConnected, IsHealthy(TRUE, ping).result,
                                   api[1].body.state, None, now)
          IN  api' = IF enableDetailedChecks /\ isConnected /\ threw = None
                     THEN Some(Outcome("/health", "stats", 0, health, None))
                     ELSE Some(HealthResponds(health, threw))
    /\ last' = "HealthPingSettles"
    /\ UNCHANGED <<entry, environment, connVars, readyState, initConnect, retryConnects,
                   closing, appPc, histVars, crudVars, procVars, sent, hits, exchange>>

\* GET /health, getStats() settles: its result goes into health.database.stats
HealthStatsSettle ==
    /\ api # None
    /\ api[1].pc = "stats"
    /\ \E query \in StatsOutcomes, threw \in TryOutcomes :
          LET stats == GetStats(TRUE, query)
          IN  api' = Some(HealthResponds(
                         [api[1].body EXCEPT !.stats = Some([error |-> stats.error,
                                                             statistics |-> stats.statistics])],
                         threw))
    /\ last' = "HealthStatsSettle"
    /\ UNCHANGED <<entry, environment, connVars, readyState, initConnect, retryConnects,
                   closing, appPc, histVars, crudVars, procVars, sent, hits, exchange>>

\* GET /version: the version object (the fields read from package.json and the
\* process are left out)
VersionBody(t) ==
    [success |-> TRUE, environment |-> environment, timestamp |-> t]

\* GET /version: require('../../package.json') and res.json, or the catch branch
GetVersion ==
    /\ CanServe
    /\ \E threw \in TryOutcomes :
          api' = IF threw = None
                 THEN Some(Outcome("/api/version", "done", 200, VersionBody(now), None))
                 ELSE Some(Outcome("/api/version", "done", 500,
                                   VersionCatch(threw[1], now), threw))
    /\ last' = "GetVersion"
    /\ UNCHANGED <<entry, environment, connVars, readyState, initConnect, retryConnects,
                   closing, appPc, histVars, crudVars, procVars, sent, hits, exchange>>

\* GET /api: the api information object
ApiInfoBody(t) ==
    [status      |-> "Server is running",
     database    |-> IF isConnected THEN "Connected" ELSE "Disconnected",
     environment |-> environment,
     timestamp   |-> t]

\* mutant: GET /api refreshes the manager's flag from the driver before it answers
GetApiInfo_Refreshes ==
    /\ CanServe
    /\ isConnected' = (readyState = 1)
    /\ api' = Some(Outcome("/api", "done", 200,
                           [ApiInfoBody(now) EXCEPT
                               !.database = IF readyState = 1 THEN "Connected"
                                            ELSE "Disconnected"],
                           None))
    /\ last' = "GetApiInfo"
    /\ UNCHANGED <<entry, environment, connectionState, connectionAttempts, timers,
                   readyState, initConnect, retryConnects, closing, appPc, histVars,
                   crudVars, procVars, sent, hits, exchange>>

\* GET /api
GetApiInfo ==
    /\ CanServe
    /\ api' = Some(Outcome("/api", "done", 200, ApiInfoBody(now), None))
    /\ last' = "GetApiInfo"
    /\ UNCHANGED <<entry, environment, connVars, readyState, initConnect, retryConnects,
                   closing, appPc, histVars, crudVars, procVars, sent, hits, exchange>>

\* a middleware or a handler passes an error on (next(err), or a throw inside a
\* synchronous handler): errorHandler answers, or throws and leaves the answer to
\* the final handler
PassToErrorHandler ==
    /\ CanServe
    /\ \E err \in Raised :
          api' = IF ErrorHandlerThrows(err)
                 THEN Some(Outcome("finalhandler", "done", 500, FinalHandlerBody, None))
                 ELSE Some(Outcome("errorHandler", "done",
                                   ErrorStatus([name |-> err.name, code |-> err.code]),
                                   ErrorEnvelope(err, now), Some(err)))
    /\ last' = "ErrorHandler"
    /\ UNCHANGED <<entry, environment, connVars, readyState, initConnect, retryConnects,
                   closing, appPc, histVars, crudVars, procVars, sent, hits, exchange>>

\* no route matches the request: notFoundHandler answers 404
NotFound ==
    /\ CanServe
    /\ api' = Some(Outcome("notFoundHandler", "done", 404,
                           [success |-> FALSE, timestamp |-> now], None))
    /\ last' = "NotFound"
    /\ UNCHANGED <<entry, environment, connVars, readyState, initConnect, retryConnects,
                   closing, appPc, histVars, crudVars, procVars, sent, hits, exchange>>

\* a request for the list of Projects arrives: the gate, then the router
ListRequest ==
    /\ SendRequest
    /\ gateLog'[1].route = "GET /"

\* the api routes and the reads of the manager, in every environment, while the
\* driver connects, fails and delivers its events (the reconnection timers stay
\* pending)
InitApi ==
    /\ Init
    /\ entry = "app"

NextApi ==
    \/ InitializeApp
    \/ InitializeAppReturns
    \/ StartServer
    \/ ConnectSucceeds
    \/ ConnectFails
    \/ OnConnected
    \/ OnError
    \/ OnDisconnected
    \/ CallGetStatus
    \/ CallIsHealthy
    \/ CallGetStats
    \/ GetHealth
    \/ HealthPingSettles
    \/ HealthStatsSettle
    \/ GetVersion
    \/ GetApiInfo
    \/ PassToErrorHandler
    \/ NotFound
    \/ ListRequest
    \/ Handle

SpecApi == InitApi /\ [][NextApi]_vars

(* ---------------------------- rate limiter ---------------------------- *)

\* paths under /api that a client asks for: three that a router mounted by
\* setupRoutes answers, and one that no router answers
ApiPaths == {"/api/version", "/api/docs", "/api/projects", "/api/unknown"}

\* setupRoutes: the routers are mounted first (apiRoutes at / and /api, the gate and
\* the Project router at /api/projects); a request that one of them answers goes no
\* further down the chain
AnsweredByRouter(path) == path # "/api/unknown"

\* setupRoutes: if (config.isProduction) app.use('/api', rateLimiter), after the
\* routers
RateLimiterMounted == isProduction

\* the status a router answers with: the gate's 503, otherwise the answer of the
\* handler, taken to be its 200
RouterStatus(path) ==
    IF path = "/api/projects" /\ GateBlocks THEN 503 ELSE 200

\* a request of the client to a path under /api goes down the chain that createApp
\* built: the routers, the rate limiter where it is mounted (it counts the request
\* and answers 429 once the count has passed max), notFoundHandler
ApiRequest ==
    /\ CanServe
    /\ sent <= rateLimitMax
    /\ sent' = sent + 1
    /\ \E path \in ApiPaths :
          LET limited == ~AnsweredByRouter(path) /\ RateLimiterMounted
              counted == IF limited THEN hits + 1 ELSE hits
              status  == IF AnsweredByRouter(path) THEN RouterStatus(path)
                         ELSE IF limited /\ counted > rateLimitMax THEN 429
                         ELSE 404
          IN  /\ hits' = counted
              /\ api' = Some(Outcome(path, "done", status, [success |-> status < 400], None))
    /\ last' = "ApiRequest"
    /\ UNCHANGED <<entry, environment, connVars, readyState, initConnect, retryConnects,
                   closing, appPc, histVars, crudVars, procVars, exchange>>

\* windowMs has passed since the first request of the window: the limiter's count
\* of the client starts again
WindowExpires ==
    /\ sent > 0
    /\ sent' = 0
    /\ hits' = 0
    /\ last' = "WindowExpires"
    /\ UNCHANGED <<entry, environment, connVars, readyState, initConnect, retryConnects,
                   closing, appPc, histVars, crudVars, procVars, api, exchange>>

(* ------------------------------ sanitizeInput ------------------------- *)

\* the pieces the strings handed to sanitizeInput are made of, each a sequence of
\* characters
Tokens ==
    {<<"<">>, <<">">>, <<" ">>, <<"x">>, <<"=">>,
     <<"o", "n">>, <<"O", "N">>,
     <<"j", "a", "v", "a">>,
     <<"s", "c", "r", "i", "p", "t", ":">>,
     <<"J", "a", "v", "a", "S", "c", "r", "i", "p", "t", ":">>}

\* the strings made of at most n pieces
RECURSIVE StringsOf(_)
StringsOf(n) ==
    IF n = 0 THEN {<<>>}
    ELSE LET shorter == StringsOf(n - 1)
         IN  shorter \cup {text \o token : text \in shorter, token \in Tokens}

\* the values handed to sanitizeInput: strings, and values of the other types
\* with their content written as characters
SanitizeInputs ==
    {[type |-> "string", value |-> text] : text \in StringsOf(MaxTokens)}
    \cup
    {[type |-> "number", value |-> <<"7">>],
     [type |-> "undefined", value |-> <<>>],
     [type |-> "object", value |-> <<"<", "x", ">">>]}

\* the lower-case form of a character (the i flag)
LowerCase(c) ==
    CASE c = "J" -> "j"
      [] c = "S" -> "s"
      [] c = "O" -> "o"
      [] c = "N" -> "n"
      [] OTHER   -> c

\* \w among the characters of the pieces
IsWordChar(c) ==
    c \in {"j", "a", "v", "s", "c", "r", "i", "p", "t", "o", "n", "x", "J", "S", "O", "N"}

\* the literal pattern pat, lower case, matches text at position i under the i flag
MatchesAt(text, i, pat) ==
    /\ i + Len(pat) - 1 <= Len(text)
    /\ \A k \in 1..Len(pat) : LowerCase(text[i + k - 1]) = pat[k]

\* .replace(/[<>]/g, '')
RemoveAngles(text) ==
    SelectSeq(text, LAMBDA c : c \notin {"<", ">"})

JavascriptScheme == <<"j", "a", "v", "a", "s", "c", "r", "i", "p", "t", ":">>

\* .replace(/javascript:/gi, ''): one pass from position i, each match is left out
\* and the scan goes on after it
RECURSIVE RemoveScheme(_, _)
RemoveScheme(text, i) ==
    IF i > Len(text) THEN <<>>
    ELSE IF MatchesAt(text, i, JavascriptScheme)
    THEN RemoveScheme(text, i + Len(JavascriptScheme))
    ELSE <<text[i]>> \o RemoveScheme(text, i + 1)

\* the length of the longest run of \w characters of text that starts at i
RECURSIVE WordRun(_, _)
WordRun(text, i) ==
    IF i <= Len(text) /\ IsWordChar(text[i]) THEN 1 + WordRun(text, i + 1) ELSE 0

\* the length of the match of /on\w+=/i at position i, 0 when there is none: '='
\* is not a \w character, so \w+ can only end where the run of \w ends
HandlerMatch(text, i) ==
    IF MatchesAt(text, i, <<"o", "n">>)
    THEN LET run == WordRun(text, i + 2)
         IN  IF run >= 1 /\ i + 2 + run <= Len(text) /\ text[i + 2 + run] = "="
             THEN 2 + run + 1
             ELSE 0
    ELSE 0

\* .replace(/on\w+=/gi, ''): one pass from position i
RECURSIVE RemoveHandlers(_, _)
RemoveHandlers(text, i) ==
    IF i > Len(text) THEN <<>>
    ELSE IF HandlerMatch(text, i) > 0
    THEN RemoveHandlers(text, i + HandlerMatch(text, i))
    ELSE <<text[i]>> \o RemoveHandlers(text, i + 1)

\* sanitizeInput(input)
SanitizeInput(input) ==
    IF input.type # "string" THEN input
    ELSE [type  |-> "string",
          value |-> TrimLeft(TrimRight(
                       RemoveHandlers(RemoveScheme(RemoveAngles(input.value), 1), 1)))]

\* a caller applies the exported sanitizeInput to a value, and applies it again to
\* what it returned
CallSanitizeInput ==
    /\ api = None
    /\ \E input \in SanitizeInputs :
          api' = Some(Outcome("sanitizeInput", "done", 0,
                              [input  |-> input,
                               output |-> SanitizeInput(input),
                               again  |-> SanitizeInput(SanitizeInput(input))],
                              None))
    /\ last' = "SanitizeInput"
    /\ UNCHANGED <<entry, environment, connVars, readyState, initConnect, retryConnects,
                   closing, appPc, histVars, crudVars, procVars, sent, hits, exchange>>

\* sanitizeInput applied to each of the values
NextSanitize ==
    \/ CallSanitizeInput

SpecSanitize == InitApi /\ [][NextSanitize]_vars

(* --------------------------- request timeout -------------------------- *)

\* the statuses a route handler or an error handler answers with
HandlerStatuses == {200, 201, 400, 404, 500, 503}

\* a request that has passed requestTimeout: whether the timeout callback is still
\* armed on the socket, whether the handler the request was routed to is still
\* running, res.headersSent, the statuses of the responses written to the socket
\* and the number of errors thrown out of a res.json call
Exchange(timer, handler, headersSent, statuses, thrown) ==
    [timer |-> timer, handler |-> handler, headersSent |-> headersSent,
     statuses |-> statuses, thrown |-> thrown]

\* mutant: res.json writes a response whether or not one was sent before
ResJson_Unchecked(x, status) ==
    [x EXCEPT !.headersSent = TRUE, !.statuses = Append(@, status)]

\* res.status(status).json(body): neither the timeout callback nor a handler tests
\* res.headersSent before the call. The response object refuses to set headers
\* once they were sent: the call throws ERR_HTTP_HEADERS_SENT and writes nothing
ResJson(x, status) ==
    IF x.headersSent
    THEN [x EXCEPT !.thrown = @ + 1]
    ELSE [x EXCEPT !.headersSent = TRUE, !.statuses = Append(@, status)]

\* a request arrives and passes requestTimeout: req.setTimeout arms the callback
\* and next() hands the request on. Requests are followed one at a time
RequestArrives ==
    /\ appPc = "listening"
    /\ entry = "app"
    /\ IF exchange = None THEN TRUE
       ELSE exchange[1].handler = "returned" /\ exchange[1].timer # "armed"
    /\ exchange' = Some(Exchange("armed", "running", FALSE, <<>>, 0))
    /\ last' = "RequestArrives"
    /\ UNCHANGED <<entry, environment, connVars, readyState, initConnect, retryConnects,
                   closing, appPc, histVars, crudVars, procVars, api, sent, hits>>

\* the socket of the request was idle for config.api.timeout: the callback of
\* req.setTimeout runs, res.status(408).json(...)
TimeoutFires ==
    /\ Running
    /\ exchange # None
    /\ exchange[1].timer = "armed"
    /\ exchange' = Some([ResJson(exchange[1], 408) EXCEPT !.timer = "fired"])
    /\ last' = "TimeoutFires"
    /\ UNCHANGED <<entry, environment, connVars, readyState, initConnect, retryConnects,
                   closing, appPc, histVars, crudVars, procVars, api, sent, hits>>

\* the handler of the request (a route handler, notFoundHandler or errorHandler)
\* completes: it answers with res.status(...).json(...)
HandlerCompletes ==
    /\ Running
    /\ exchange # None
    /\ exchange[1].handler = "running"
    /\ \E status \in HandlerStatuses :
          exchange' = Some([ResJson(exchange[1], status) EXCEPT !.handler = "returned"])
    /\ last' = "HandlerCompletes"
    /\ UNCHANGED <<entry, environment, connVars, readyState, initConnect, retryConnects,
                   closing, appPc, histVars, crudVars, procVars, api, sent, hits>>

\* the socket is closed after the response (no keep-alive): the timeout callback
\* will not run
SocketCloses ==
    /\ Running
    /\ exchange # None
    /\ exchange[1].timer = "armed"
    /\ exchange[1].headersSent
    /\ exchange' = Some([exchange[1] EXCEPT !.timer = "closed"])
    /\ last' = "SocketCloses"
    /\ UNCHANGED <<entry, environment, connVars, readyState, initConnect, retryConnects,
                   closing, appPc, histVars, crudVars, procVars, api, sent, hits>>

\* the modular server in every environment and the requests that pass
\* requestTimeout, each racing its handler against the timeout callback
NextTimeout ==
    \/ InitializeApp
    \/ InitializeAppReturns
    \/ StartServer
    \/ ConnectSucceeds
    \/ ConnectFails
    \/ OnDisconnected
    \/ OnConnected
    \/ RequestArrives
    \/ TimeoutFires
    \/ HandlerCompletes
    \/ SocketCloses

SpecTimeout == InitApi /\ [][NextTimeout]_vars

\* the modular server and one client that sends requests to paths under /api
NextRate ==
    \/ InitializeApp
    \/ InitializeAppReturns
    \/ StartServer
    \/ ConnectSucceeds
    \/ ConnectFails
    \/ ApiRequest
    \/ WindowExpires

SpecRate == InitApi /\ [][NextRate]_vars

\* the modular server from its start to its shutdown: the driver settles every
\* close() it is asked for, and a continuation that is ready to run is run
NextShutdown ==
    \/ InitializeApp
    \/ InitializeAppReturns
    \/ StartServer
    \/ ConnectSucceeds
    \/ ConnectFails
    \/ OnConnected
    \/ OnDisconnected
    \/ Receive
    \/ CloseSucceeds
    \/ CloseFails
    \/ ShutdownSettles
    \/ ProcessExit

SpecShutdown ==
    /\ InitApi
    /\ [][NextShutdown]_vars
    /\ WF_vars(InitializeAppReturns)
    /\ WF_vars(CloseSucceeds \/ CloseFails)
    /\ WF_vars(ShutdownSettles)
    /\ WF_vars(ProcessExit)

\* the Project service: a development-mode process serving requests while the
\* driver connects, fails and delivers its events
InitCrud ==
    /\ Init
    /\ isDevelopment

NextCrud ==
    \/ InitializeApp
    \/ InitializeAppReturns
    \/ StartServer
    \/ LegacyStart
    \/ ConnectSucceeds
    \/ ConnectFails
    \/ OnConnected
    \/ OnError
    \/ OnDisconnected
    \/ SendRequest
    \/ Handle
    \/ HandleFails

SpecCrud == InitCrud /\ [][NextCrud]_vars

(* ------------------------------- Next --------------------------------- *)

Next ==
    \/ InitializeApp
    \/ InitializeAppReturns
    \/ StartServer
    \/ LegacyStart
    \/ TimerFires
    \/ ConnectSucceeds
    \/ ConnectFails
    \/ OnConnected
    \/ OnError
    \/ OnDisconnected
    \/ OnReconnected
    \/ DisconnectCall
    \/ CloseSucceeds
    \/ CloseFails

Spec == Init /\ [][Next]_vars

(* ====================== connection manager: claims ==================== *)

\* C2: in production mode, when the initial connect() and all five retries fail
\* (six failures, no successful connection), connect() was invoked exactly
\* maxRetries + 1 = 6 times, no reconnection timer is pending and no retry is in
\* flight; and as long as no connection succeeded connect() is never invoked more
\* than six times.
C2_SixConnectsThenGiveUp ==
    (entry = "app" /\ isProduction /\ ~everConnected) =>
        /\ connectCalls <= maxRetries + 1
        /\ (connectFailures = maxRetries + 1 =>
                /\ connectCalls = maxRetries + 1
                /\ timers = 0
                /\ retryConnects = 0
                /\ initConnect # "pending")

C2_Witness ==
    /\ entry = "app"
    /\ isProduction
    /\ ~everConnected
    /\ connectFailures = maxRetries + 1
    /\ connectCalls = maxRetries + 1
    /\ connectionAttempts = maxRetries
    /\ timers = 0

\* C3: in every reachable state at most one reconnection timer is pending.
C3_AtMostOnePendingTimer ==
    timers <= 1

\* C4: whenever connectionState is 'connected' the attempt counter is 0.
C4_ConnectedResetsAttempts ==
    connectionState = "connected" => connectionAttempts = 0

\* C5: connect() never rejects: right after a failed mongoose.connect the state is
\* 'error' and isConnected is false, the promise awaited by initializeApp is never
\* rejected, and the process never exits because of the connection (it exits only
\* after initializeApp completed, when app.listen fails).
C5_ConnectNeverRejects ==
    /\ initConnect # "rejected"
    /\ (last = "ConnectFails" => connectionState = "error" /\ ~isConnected)
    /\ (appPc = "exited" => initConnect = "resolved" /\ last = "StartServerFails")

C5_Witness ==
    /\ appPc = "listening"
    /\ entry = "app"
    /\ connectFailures >= 1
    /\ ~everConnected
    /\ connectionState = "error"
    /\ ~isConnected

\* the step just taken delivered a 'disconnected' event to the manager
DisconnectedDelivered ==
    /\ entry = "app"
    /\ \/ last' = "OnDisconnected"
       \/ last' = "DisconnectReturns" /\ readyState # 0

\* C6: reconnection is scheduled only in production mode: outside production no
\* step adds a reconnection timer; in production a failed connect() and a
\* 'disconnected' event each add one while the attempt budget is not exhausted.
C6_ReconnectionOnlyInProduction ==
    [][ /\ (~isProduction => timers' <= timers)
        /\ ((isProduction /\ connectionAttempts < maxRetries
                /\ (last' = "ConnectFails" \/ DisconnectedDelivered))
              => timers' = timers + 1) ]_vars

\* C7: after disconnect() returns (also when close() failed), connectionState is
\* 'disconnected' and isConnected is false.
C7_DisconnectAlwaysDisconnected ==
    last \in {"DisconnectReturns", "DisconnectReturnsAfterError"} =>
        connectionState = "disconnected" /\ ~isConnected

\* the edges of the state machine of the specification
SpecifiedEdges ==
    {<<"disconnected", "connecting">>, <<"error", "connecting">>,
     <<"connecting", "connected">>, <<"connecting", "error">>,
     <<"connected", "disconnected">>, <<"disconnecting", "disconnected">>}
    \cup {<<s, "disconnecting">> : s \in ConnectionStates}

\* C8 (as stated): connectionState starts as 'disconnected', is always one of the
\* five specified states and changes only along the specified edges (through
\* 'connecting' on connect(), through 'disconnecting' on disconnect()).
C8_SpecifiedStateMachine ==
    /\ connectionState = "disconnected"
    /\ [][ /\ connectionState' \in ConnectionStates
           /\ (connectionState' # connectionState =>
                 <<connectionState, connectionState'>> \in SpecifiedEdges) ]_vars

\* C8 (amended): connectionState starts as 'disconnected', only ever holds
\* 'disconnected', 'connected' or 'error', and changes only in these steps:
\* to 'connected' by a 'connected' / 'reconnected' event, to 'error' by an 'error'
\* event or a failed connect(), to 'disconnected' by a 'disconnected' event.
C8_ActualStateMachine ==
    /\ connectionState = "disconnected"
    /\ [][ /\ connectionState' \in {"disconnected", "connected", "error"}
           /\ (connectionState' # connectionState =>
                 \/ /\ connectionState' = "connected"
                    /\ last' \in {"OnConnected", "OnReconnected", "ConnectSucceeds"}
                 \/ /\ connectionState' = "error"
                    /\ last' \in {"OnError", "ConnectFails"}
                 \/ /\ connectionState' = "disconnected"
                    /\ DisconnectedDelivered) ]_vars

C8_Witness ==
    /\ connectionState = "error"
    /\ last = "OnError"
    /\ everConnected
    /\ readyState = 1

(* ========================= Project routes: claims ===================== *)

\* C1: a request to a Project route that arrives while isConnected is false is
\* answered 503 with success = false and is not passed on (next() is not called);
\* one that arrives while isConnected is true gets no response from the gate and is
\* passed on exactly once.
C1_GateBlocksWhenDisconnected ==
    gateLog # None =>
        LET g == gateLog[1]
        IN  IF ~g.isConnected
            THEN g.status = 503 /\ ~g.success /\ g.nexts = 0
            ELSE g.status = 0 /\ g.nexts = 1

\* every character is whitespace: the text is empty after trimming
IsBlank(text) == \A i \in 1..Len(text) : text[i] = " "

\* the step runs the handler of POST /api/projects on this body, and the handler
\* answers itself (its storage operation raises no error)
CreateHandled(body) ==
    /\ req # None
    /\ req' = None
    /\ last' = "Handled"
    /\ req[1].route = "POST /"
    /\ req[1].body = body

\* C9: a creation payload whose name and description are non-empty after trimming and
\* whose status, if present, is one of the four enumerated values is answered 201
\* (storage being reachable when the handler runs), and the returned record is
\* stored under a new system-assigned id with createdAt = updatedAt, status
\* 'planning' when status was omitted and technologies [] when omitted.
C9_ValidCreateSucceeds ==
    [][ \A body \in CreateBodies :
          ( /\ CreateHandled(body)
            /\ StorageAvailable
            /\ body.name # None /\ ~IsBlank(body.name[1])
            /\ body.description # None /\ ~IsBlank(body.description[1])
            /\ (body.status = None \/ body.status[1] \in
                    {"planning", "in-progress", "completed", "on-hold"}) )
          => /\ res' # None
             /\ res'[1].status = 201
             /\ res'[1].success
             /\ res'[1].data # None
             /\ LET d == res'[1].data[1]
                IN  /\ d \in store'
                    /\ d.id \notin {x.id : x \in store}
                    /\ d.createdAt = d.updatedAt
                    /\ (body.status = None => d.status = "planning")
                    /\ (body.status # None => d.status = body.status[1])
                    /\ (body.technologies = None => d.technologies = <<>>) ]_vars

C9_Witness ==
    /\ last = "Handled"
    /\ res # None
    /\ res[1].status = 201
    /\ res[1].data # None
    /\ res[1].data[1].status = "planning"
    /\ res[1].data[1].technologies = <<>>
    /\ res[1].data[1].createdAt = res[1].data[1].updatedAt
    /\ res[1].data[1] \in store

\* C10: a creation payload whose name or description is missing or empty after
\* trimming is answered 400 (ValidationFailure) and nothing is persisted.
C10_InvalidCreateRejected ==
    [][ \A body \in CreateBodies :
          ( /\ CreateHandled(body)
            /\ \/ body.name = None
               \/ body.description = None
               \/ IsBlank(body.name[1])
               \/ IsBlank(body.description[1]) )
          => /\ res' # None
             /\ res'[1].status = 400
             /\ ~res'[1].success
             /\ res'[1].kind = "ValidationFailure"
             /\ store' = store
             /\ nextId' = nextId ]_vars

C10_Witness ==
    /\ last = "Handled"
    /\ gateLog # None
    /\ gateLog[1].route = "POST /"
    /\ res # None
    /\ res[1].status = 400
    /\ "name" \in res[1].fields
    /\ "description" \notin res[1].fields
    /\ store = {StoredBefore}

\* the step runs the handler of this route, and the handler answers itself (its
\* storage operation, if it makes one, raises no error)
Handled(route) ==
    /\ req # None
    /\ req' = None
    /\ last' = "Handled"
    /\ req[1].route = route

\* C11: every stored Project has its status among planning, in-progress, completed
\* and on-hold; a create or an update that carries any other status is answered 400
\* (ValidationFailure) and leaves the store as it was.
C11_StatusAlwaysEnumerated ==
    /\ [](\A d \in store : d.status \in {"planning", "in-progress", "completed", "on-hold"})
    /\ [][ ( /\ (Handled("POST /") \/ Handled("PUT /:id"))
             /\ req[1].body.status # None
             /\ req[1].body.status[1] \notin
                    {"planning", "in-progress", "completed", "on-hold"} )
           => /\ res' # None
              /\ res'[1].status = 400
              /\ ~res'[1].success
              /\ res'[1].kind = "ValidationFailure"
              /\ store' = store ]_vars

C11_Witness ==
    /\ last = "Handled"
    /\ gateLog # None
    /\ gateLog[1].route = "PUT /:id"
    /\ res # None
    /\ res[1].status = 400
    /\ res[1].fields = {"status"}
    /\ store = {StoredBefore}
    /\ readyState = 1

\* C12: round trip: while a Project returned by a successful create has not been
\* updated or deleted, a getById with the returned id is answered 200 with a record
\* equal, field for field, to the one the create returned (storage being reachable
\* when the handler runs).
C12_CreateThenGetById ==
    [][ \A c \in created :
          ( /\ Handled("GET /:id")
            /\ req[1].id = c.id
            /\ StorageAvailable )
          => /\ res' # None
             /\ res'[1].status = 200
             /\ res'[1].success
             /\ res'[1].data = Some(c) ]_vars

C12_Witness ==
    /\ last = "Handled"
    /\ gateLog # None
    /\ gateLog[1].route = "GET /:id"
    /\ res # None
    /\ res[1].status = 200
    /\ res[1].data # None
    /\ res[1].data[1] \in created
    /\ res[1].data[1].status = "completed"

\* the step runs the handler of PUT /:id on a stored Project with a payload that sets
\* status to 'completed', storage being reachable
CompletesProject(old) ==
    /\ Handled("PUT /:id")
    /\ req[1].id = old.id
    /\ req[1].body.status = Some("completed")
    /\ StorageAvailable

\* what C13 says of the update besides the order of the timestamps: the answer is
\* 200 with the stored record, status is 'completed', id and createdAt are those of
\* the record before, fields the payload does not mention keep their values and
\* no other Project is touched
CompletedFrom(old) ==
    /\ res' # None
    /\ res'[1].status = 200
    /\ res'[1].data # None
    /\ LET new == res'[1].data[1]
       IN  /\ new.status = "completed"
           /\ new.id = old.id
           /\ new.createdAt = old.createdAt
           /\ (req[1].body.name = None => new.name = old.name)
           /\ new.description = old.description
           /\ new.technologies = old.technologies
           /\ new.startDate = old.startDate
           /\ new \in store'
           /\ store' \ {new} = store \ {old}

\* C13 (as stated): an update that sets status to 'completed' on an existing Project
\* returns the record with status 'completed', an updatedAt strictly greater than
\* before, id and createdAt unchanged, the unmentioned fields unchanged, and
\* modifies no other Project.
C13_UpdateStrictlyLater ==
    [][ \A old \in store :
          CompletesProject(old) =>
             /\ CompletedFrom(old)
             /\ res'[1].data[1].updatedAt > old.updatedAt ]_vars

\* C13 (amended): as stated, except that updatedAt becomes the instant of the update,
\* which is never earlier than the previous updatedAt but equals it when the update
\* runs in the same clock instant (millisecond) as the previous write.
C13_UpdateRefreshes ==
    [][ \A old \in store :
          CompletesProject(old) =>
             /\ CompletedFrom(old)
             /\ res'[1].data[1].updatedAt = now'
             /\ res'[1].data[1].updatedAt >= old.updatedAt ]_vars

C13_Witness ==
    /\ last = "Handled"
    /\ gateLog # None
    /\ gateLog[1].route = "PUT /:id"
    /\ res # None
    /\ res[1].status = 200
    /\ res[1].data # None
    /\ res[1].data[1].status = "completed"
    /\ res[1].data[1].updatedAt > res[1].data[1].createdAt
    /\ res[1].data[1].id = ObjectIdText(1)
    /\ Cardinality(store) = 2

\* C14: once a delete of an id has succeeded the Project is gone: it is not stored,
\* every later getById and delete of that id is answered 404 (NotFound) and changes
\* nothing, and a delete succeeds only for an id that is stored and was never
\* deleted before (storage being reachable when the handlers run).
C14_DeletedStaysDeleted ==
    /\ [](\A id \in deleted : \A d \in store : d.id # id)
    /\ [][ /\ ( ( /\ (Handled("GET /:id") \/ Handled("DELETE /:id"))
                   /\ req[1].id \in deleted
                   /\ StorageAvailable )
                 => /\ res' # None
                    /\ res'[1].status = 404
                    /\ ~res'[1].success
                    /\ res'[1].kind = "NotFound"
                    /\ store' = store )
           /\ ( ( /\ Handled("DELETE /:id")
                   /\ res' # None
                   /\ res'[1].status = 200 )
                 => /\ req[1].id \notin deleted
                    /\ \E d \in store : d.id = req[1].id /\ store' = store \ {d} ) ]_vars

C14_Witness ==
    /\ last = "Handled"
    /\ gateLog # None
    /\ gateLog[1].route = "DELETE /:id"
    /\ res # None
    /\ res[1].status = 404
    /\ deleted = {ObjectIdText(1)}
    /\ store = {}

\* the payload of an update passes validation
ValidUpdate(body) ==
    /\ (body.name = None \/ ~IsBlank(body.name[1]))
    /\ (body.description = None \/ ~IsBlank(body.description[1]))
    /\ (body.status = None \/ body.status[1] \in
            {"planning", "in-progress", "completed", "on-hold"})

\* C15: getById, update (with a valid payload) and delete with a well-formed id that
\* matches no stored Project are answered 404 (NotFound, success = false) and leave
\* the stored Projects unchanged; the update creates no record (storage being
\* reachable when the handlers run).
C15_UnknownIdNotFound ==
    [][ ( /\ \/ Handled("GET /:id")
             \/ Handled("DELETE /:id")
             \/ Handled("PUT /:id") /\ ValidUpdate(req[1].body)
          /\ Len(req[1].id) = 24
          /\ \A i \in 1..Len(req[1].id) : req[1].id[i] \in HexDigits
          /\ \A d \in store : d.id # req[1].id
          /\ StorageAvailable )
        => /\ res' # None
           /\ res'[1].status = 404
           /\ ~res'[1].success
           /\ res'[1].kind = "NotFound"
           /\ store' = store
           /\ nextId' = nextId ]_vars

C15_Witness ==
    /\ last = "Handled"
    /\ gateLog # None
    /\ gateLog[1].route = "PUT /:id"
    /\ res # None
    /\ res[1].status = 404
    /\ res[1].kind = "NotFound"
    /\ store = {StoredBefore}
    /\ deleted = {}

\* the payload of a create passes validation
ValidCreate(body) ==
    /\ body.name # None /\ ~IsBlank(body.name[1])
    /\ body.description # None /\ ~IsBlank(body.description[1])
    /\ (body.status = None \/ body.status[1] \in
            {"planning", "in-progress", "completed", "on-hold"})

\* C16: a stored Project holds only schema fields and the system-managed id,
\* createdAt and updatedAt (no field such as hacked); a create or an update whose
\* payload is valid succeeds whatever other fields it carries, and the id, createdAt
\* and updatedAt of the record are the system's (a new id and the instant of the
\* create; on update the id and createdAt of the stored record and the instant of the
\* update), never the values the caller submitted.
C16_WhitelistedFieldsOnly ==
    /\ [](\A d \in store :
            DOMAIN d \subseteq {"name", "description", "technologies", "status", "startDate",
                                "endDate", "repository", "liveUrl",
                                "id", "createdAt", "updatedAt"})
    /\ [][ /\ ( ( /\ Handled("POST /")
                   /\ ValidCreate(req[1].body)
                   /\ StorageAvailable )
                 => /\ res' # None
                    /\ res'[1].status = 201
                    /\ res'[1].data # None
                    /\ res'[1].data[1].id = ObjectIdText(nextId)
                    /\ res'[1].data[1].createdAt = now'
                    /\ res'[1].data[1].updatedAt = now'
                    /\ store' = store \cup {res'[1].data[1]} )
           /\ \A old \in store :
                 ( /\ Handled("PUT /:id")
                   /\ req[1].id = old.id
                   /\ ValidUpdate(req[1].body)
                   /\ StorageAvailable )
                 => /\ res' # None
                    /\ res'[1].status = 200
                    /\ res'[1].data # None
                    /\ res'[1].data[1].id = old.id
                    /\ res'[1].data[1].createdAt = old.createdAt
                    /\ res'[1].data[1].updatedAt = now'
                    /\ store' = (store \ {old}) \cup {res'[1].data[1]} ]_vars

C16_Witness ==
    /\ last = "Handled"
    /\ gateLog # None
    /\ gateLog[1].route = "POST /"
    /\ gateLog[1].extra = {"id", "createdAt", "updatedAt"}
    /\ res # None
    /\ res[1].status = 201
    /\ res[1].data[1].id = ObjectIdText(2)
    /\ res[1].data[1].createdAt = now
    /\ res[1].data[1] \in store

\* C17: GET, PUT and DELETE /:id with an identifier that is not exactly 24
\* hexadecimal characters are answered 400 (ValidationFailure) and no storage
\* operation is made for the request.
C17_MalformedIdRejected ==
    [][ ( /\ \/ Handled("GET /:id")
             \/ Handled("PUT /:id")
             \/ Handled("DELETE /:id")
          /\ \/ Len(req[1].id) # 24
             \/ \E i \in 1..Len(req[1].id) : req[1].id[i] \notin HexDigits )
        => /\ res' # None
           /\ res'[1].status = 400
           /\ ~res'[1].success
           /\ res'[1].kind = "ValidationFailure"
           /\ storageCalls' = 0
           /\ store' = store ]_vars

C17_Witness ==
    /\ last = "Handled"
    /\ gateLog # None
    /\ gateLog[1].route = "DELETE /:id"
    /\ Len(gateLog[1].id) = 24
    /\ gateLog[1].id[1] = "g"
    /\ res # None
    /\ res[1].status = 400
    /\ storageCalls = 0
    /\ store = {StoredBefore}
    /\ readyState = 1

\* C18: for every stored Project updatedAt >= createdAt, and no step changes the
\* createdAt of a Project that stays stored.
C18_CreatedAtImmutable ==
    /\ [](\A d \in store : d.updatedAt >= d.createdAt)
    /\ [][ \A d \in store : \A e \in store' :
             e.id = d.id => e.createdAt = d.createdAt ]_vars

C18_Witness ==
    /\ last = "Handled"
    /\ gateLog # None
    /\ gateLog[1].route = "PUT /:id"
    /\ \E d \in store :
          /\ d.id = ObjectIdText(2)
          /\ d.createdAt = 1
          /\ d.updatedAt > d.createdAt
          /\ res = Some(Response(200, "Ok", Some(d), {}, {}))

\* C19: getAll is answered 200 with exactly the stored Projects (every created one
\* that was not deleted, none that was deleted) and count equal to their number; with
\* no Project stored it is answered 200 with an empty sequence and count 0 (storage
\* being reachable when the handler runs).
C19_GetAllReturnsStore ==
    [][ ( /\ Handled("GET /")
          /\ StorageAvailable )
        => /\ res' # None
           /\ res'[1].status = 200
           /\ res'[1].success
           /\ res'[1].items = store
           /\ res'[1].count = Cardinality(res'[1].items)
           /\ \A c \in created : c \in res'[1].items
           /\ \A d \in res'[1].items : d.id \notin deleted
           /\ (store = {} => res'[1].items = {} /\ res'[1].count = 0)
           /\ store' = store ]_vars

C19_Witness ==
    /\ last = "Handled"
    /\ gateLog # None
    /\ gateLog[1].route = "GET /"
    /\ res # None
    /\ res[1].status = 200
    /\ res[1].items = {}
    /\ res[1].count = 0
    /\ deleted = {ObjectIdText(1)}

\* C20: a failure is answered with success = false and the status of its kind:
\* a validation failure or a malformed identifier 400, a duplicate key (code 11000)
\* 400, not found 404, no active connection 503, any other error 500; none is
\* answered with a 2xx status.
C20_ErrorKindsMapped ==
    /\ failure # None =>
          /\ res # None
          /\ ~res[1].success
          /\ res[1].status =
                IF failure[1].name \in {"ValidationError", "CastError"} THEN 400
                ELSE IF failure[1].code = 11000 THEN 400
                ELSE 500
    /\ res # None =>
          /\ (res[1].kind = "ValidationFailure" => res[1].status = 400)
          /\ (res[1].kind = "NotFound" => res[1].status = 404)
          /\ (res[1].kind = "StorageUnavailable" => res[1].status = 503)
          /\ (res[1].status >= 400 => ~res[1].success)
          /\ (~res[1].success => res[1].status >= 400)

(* ===================== gate and storage: claims ====================== *)

ErrorAnswer(op, err, t) ==
    CASE op = "/health"      -> HealthCatch(err, t)
      [] op = "/api/version" -> VersionCatch(err, t)
      [] OTHER               -> ErrorEnvelope(err, t)

\* C21: outside development mode an error response does not depend on the message
\* and the stack of the error: whatever error was met, the same error with any
\* other message and any other stack would have produced the same envelope at the
\* same instant.
C21_NoInternalsOutsideDevelopment ==
    (api # None /\ ~isDevelopment) =>
        (api[1].thrown # None =>
            \A m \in Messages, st \in Stacks :
                ErrorAnswer(api[1].op,
                            [api[1].thrown[1] EXCEPT !.message = m, !.stack = st],
                            api[1].body.timestamp) = api[1].body)

(* ========================== shutdown: claims ========================== *)

\* C22: when SIGTERM, SIGINT, an uncaught exception or an unhandled rejection is
\* received, disconnect() is invoked; a process that has received one exits only
\* after the disconnect() awaited by the shutdown has settled; and after such an
\* event the process eventually exits.
C22_TriggerShutsDown ==
    /\ [][(trigger = None /\ trigger' # None) => disconnectCalls' > disconnectCalls]_vars
    /\ []((trigger # None /\ appPc = "exited") => shutdown = "settled")
    /\ ((trigger # None) ~> (appPc = "exited"))

\* GET /health or GET /api/version answers in this step
Answers(route) ==
    /\ api' # api
    /\ api' # None
    /\ api'[1].op = route
    /\ api'[1].pc = "done"

\* GET /health was waiting for isHealthy() or getStats() before this step
Waiting(pc) ==
    /\ api # None
    /\ api[1].pc = pc

\* C24 as stated: GET /health and GET /api/version are not gated: whatever the
\* connection state, they answer 200 with success = true and never 503, and
\* /health reports the connection flag and state of the manager as they are when
\* it answers.
C24_HealthAndVersionAlwaysOk ==
    [][\A route \in {"/health", "/api/version"} :
          Answers(route) =>
              /\ api'[1].status = 200
              /\ api'[1].body.success
              /\ (route = "/health" =>
                      /\ api'[1].body.connected = isConnected
                      /\ api'[1].body.state = connectionState)]_vars

\* C24: GET /health and GET /api/version are not gated: whatever the connection
\* state, they answer 200 with success = true, or 500 with success = false when
\* their own try block threw, and never 503. A 200 of /health reports the state
\* that getStatus() returned when the request arrived and the flag isConnected
\* read after isHealthy() settled: both are the manager's values at the answer
\* when the handler did not wait, which is the case exactly when the manager is
\* not connected at the arrival.
C24_HealthAndVersionNotGated ==
    [][\A route \in {"/health", "/api/version"} :
          Answers(route) =>
              /\ api'[1].status \in {200, 500}
              /\ api'[1].status = 200 <=> api'[1].thrown = None
              /\ api'[1].body.success = (api'[1].status = 200)
              /\ (route = "/health" /\ api'[1].status = 200 =>
                      /\ (~Waiting("ping") /\ ~Waiting("stats")) =>
                             /\ ~isConnected
                             /\ api'[1].body.connected = isConnected
                             /\ api'[1].body.state = connectionState
                             /\ ~api'[1].body.healthy
                      /\ Waiting("ping") =>
                             /\ api'[1].body.connected = isConnected
                             /\ api'[1].body.state = api[1].body.state
                      /\ Waiting("stats") =>
                             /\ api'[1].body.connected = api[1].body.connected
                             /\ api'[1].body.state = api[1].body.state)]_vars

\* GET /health has answered 200 with success = true while the manager is in the
\* state error, reporting connected = false and state = error
C24_Witness ==
    /\ last = "GetHealth"
    /\ connectionState = "error"
    /\ ~isConnected
    /\ api # None
    /\ api[1].op = "/health"
    /\ api[1].status = 200
    /\ api[1].body.success
    /\ ~api[1].body.connected
    /\ api[1].body.state = "error"

(* ===================== reads of the manager: claims =================== *)

\* C25: getStatus() is a pure read: the object it returns holds isConnected, state
\* and connectionAttempts equal to the manager's fields at the call, and the call
\* leaves isConnected, connectionState, connectionAttempts and the pending timers
\* as they were.
C25_GetStatusPureRead ==
    [][last' = "GetStatus" =>
          /\ api'[1].op = "getStatus"
          /\ api'[1].body.isConnected = isConnected
          /\ api'[1].body.state = connectionState
          /\ api'[1].body.connectionAttempts = connectionAttempts
          /\ UNCHANGED <<isConnected, connectionState, connectionAttempts, timers>>]_vars

\* getStatus() has been called on a manager in the state error, with a
\* reconnection attempt counted and its timer pending
C25_Witness ==
    /\ last = "GetStatus"
    /\ api # None
    /\ api[1].op = "getStatus"
    /\ connectionState = "error"
    /\ connectionAttempts > 0
    /\ timers > 0
    /\ api[1].body.state = "error"
    /\ api[1].body.connectionAttempts = connectionAttempts

\* C26: isHealthy() returns false without issuing a ping when isConnected is false;
\* when isConnected is true it issues one ping and returns true exactly when the
\* ping succeeds; no exception leaves it; and it changes nothing of the connection
\* state.
C26_IsHealthyByPing ==
    [][last' = "IsHealthy" =>
          LET returned == api'[1].body.returned
          IN  /\ api'[1].op = "isHealthy"
              /\ returned.thrown = None
              /\ ~isConnected => (~returned.result /\ returned.pings = 0)
              /\ isConnected =>
                     /\ returned.pings = 1
                     /\ returned.result <=> (api'[1].body.settled = "resolves")
              /\ UNCHANGED <<isConnected, connectionState, connectionAttempts>>]_vars

\* isHealthy() has been called on a connected manager and its ping failed
C26_Witness ==
    /\ last = "IsHealthy"
    /\ api # None
    /\ api[1].op = "isHealthy"
    /\ isConnected
    /\ api[1].body.settled = "rejects"
    /\ ~api[1].body.returned.result
    /\ api[1].body.returned.pings = 1

\* C27: no exception leaves getStats(): called while the manager is not connected
\* it returns the error descriptor 'Database not connected' and queries nothing;
\* when its statistics query fails it returns an error descriptor with the message
\* of the failure; otherwise it returns the statistics (collections, documents,
\* data size, storage size, indexes, index size) that the driver reported.
C27_GetStatsNeverThrows ==
    [][last' = "GetStats" =>
          LET returned == api'[1].body.returned
              query    == api'[1].body.settled
          IN  /\ api'[1].op = "getStats"
              /\ returned.thrown = None
              /\ ~isConnected =>
                     /\ returned.error = Some("Database not connected")
                     /\ returned.statistics = None
                     /\ returned.queries = 0
              /\ (isConnected /\ ~query.ok) =>
                     /\ returned.error = Some(query.message)
                     /\ returned.statistics = None
              /\ (isConnected /\ query.ok) =>
                     /\ returned.error = None
                     /\ returned.statistics # None
                     /\ returned.statistics[1].documents = DriverStats.objects
                     /\ returned.statistics[1].collections = DriverStats.collections]_vars

\* getStats() has been called on a connected manager and its query failed
C27_Witness ==
    /\ last = "GetStats"
    /\ api # None
    /\ api[1].op = "getStats"
    /\ isConnected
    /\ ~api[1].body.settled.ok
    /\ api[1].body.returned.error = Some(api[1].body.settled.message)

\* the steps of the gate, of the handlers of the api and Project routes, of the
\* error handlers and of startServer
RequestSteps ==
    {"GateBlocked", "GatePassed", "Handled", "GetHealth", "HealthPingSettles",
     "HealthStatsSettle", "GetVersion", "GetApiInfo", "ErrorHandler", "NotFound",
     "StartServer", "StartServerFails"}

\* the steps of the manager: connect() settling and the handlers of the driver's
\* events
ManagerSteps ==
    {"ConnectSucceeds", "ConnectFails", "OnConnected", "OnError", "OnDisconnected"}

\* C28: isConnected, connectionState and connectionAttempts are changed only by
\* steps of the manager (connect() and the handlers of the driver's events); the
\* gate, the handlers of /health, /version and /api, the error handlers and
\* startServer leave them as they were.
C28_OnlyManagerChangesState ==
    [][/\ (last' \in RequestSteps =>
              UNCHANGED <<isConnected, connectionState, connectionAttempts>>)
       /\ (<<isConnected, connectionState, connectionAttempts>>' #
              <<isConnected, connectionState, connectionAttempts>> =>
              last' \in ManagerSteps)]_vars

\* GET /api has answered on a manager that is in the state error with a
\* reconnection attempt counted
C28_Witness ==
    /\ last = "GetApiInfo"
    /\ connectionState = "error"
    /\ connectionAttempts > 0
    /\ api # None
    /\ api[1].op = "/api"
    /\ api[1].body.database = "Disconnected"

(* ========================== start-up: claims ========================== *)

\* C29: the modular server starts in the documented order: the configuration has
\* been validated when the database connection is attempted, and the connection
\* attempt has settled when the HTTP server listens.
C29_StartupOrder ==
    entry = "app" =>
        /\ (initConnect # "idle" => validated)
        /\ (appPc = "listening" => initConnect \in {"resolved", "rejected"})

(* ======================== rate limiter: claims ======================== *)

\* C30: every request to a path under /api is counted by the rate limiter before
\* it is answered, and a client that has already sent max = 100 requests in the
\* current window is answered 429.
C30_RateLimitedOnAllRoutes ==
    [][last' = "ApiRequest" =>
          /\ hits' = hits + 1
          /\ (sent >= rateLimitMax => api'[1].status = 429)]_vars

(* ================= connection manager: further claims ================= *)

\* C31: in every reachable state of the manager isConnected is true exactly when
\* connectionState is 'connected', whatever the outcomes of connect() and the
\* driver's events and however they interleave.
C31_FlagMatchesState ==
    isConnected <=> (connectionState = "connected")

\* the manager is connected again after an 'error' event: 'reconnected' was handled
C31_Witness ==
    /\ entry = "app"
    /\ last = "OnReconnected"
    /\ isConnected
    /\ connectionState = "connected"
    /\ events > 1

\* C32: in every reachable state connectionAttempts is between 0 and maxRetries
\* (5), whatever the number and the order of the failed connects and of the
\* driver's 'disconnected' events.
C32_AttemptsWithinBudget ==
    /\ connectionAttempts >= 0
    /\ connectionAttempts <= maxRetries

\* the budget is used up: five reconnections were scheduled and the connect() of
\* the last one failed as well
C32_Witness ==
    /\ entry = "app"
    /\ last = "ConnectFails"
    /\ connectionAttempts = maxRetries
    /\ timers = 0
    /\ retryConnects = 0
    /\ connectFailures = maxRetries + 1

\* C33: an explicit disconnect() never causes a reconnection: when disconnect() is
\* called from the connected state, in any mode, the 'disconnected' event that
\* results schedules no reconnection timer.
C33_DisconnectSchedulesNothing ==
    [][(isConnected /\ last' = "DisconnectReturns") => timers' = timers]_vars

\* C34: a reconnection timer never fires connect() while the connection is
\* established: when 'connected' or 'reconnected' arrived while the timer was
\* pending, the timer is cancelled or its firing does not call the driver's connect.
C34_TimerNeverConnectsWhenConnected ==
    [][(last' = "TimerFires" /\ retryConnects' > retryConnects) => ~isConnected]_vars

(* ===================== api routes: further claims ===================== *)

\* C36: every 200 of GET /health is consistent about the connection:
\* database.connected is true exactly when database.state is 'connected', and
\* database.healthy = true implies database.connected = true, also when a driver
\* event changes the connection state while the handler awaits the health probe.
C36_HealthAnswerConsistent ==
    (/\ api # None
     /\ api[1].op = "/health"
     /\ api[1].pc = "done"
     /\ api[1].status = 200)
        => /\ api[1].body.connected <=> (api[1].body.state = "connected")
           /\ api[1].body.healthy => api[1].body.connected

\* C37: errorHandler is total: for every error object (any name, any code, with
\* or without an errors map) it sends one response itself, with status 400 or 500,
\* and does not throw; an error named 'ValidationError' without an errors map is
\* answered with 400 like any other.
C37_ErrorHandlerTotal ==
    [][last' = "ErrorHandler" =>
          /\ api'[1].op = "errorHandler"
          /\ api'[1].status \in {400, 500}
          /\ api'[1].thrown # None
          /\ api'[1].thrown[1].name = "ValidationError" => api'[1].status = 400]_vars

(* ====================== shutdown: further claims ====================== *)

\* C38: every exit made by gracefulShutdown has status 0: disconnect() swallows
\* the error of close(), so the exit(1) of the catch branch is never reached, and
\* a shutdown started by an uncaught exception or an unhandled rejection exits
\* with status 0 as well.
C38_ShutdownExitsZero ==
    /\ shutdown # "failed"
    /\ last = "ProcessExit" => exitCode = Some(0)

\* the shutdown was started by an uncaught exception, close() rejected (the driver
\* is still closing) and the process has exited through gracefulShutdown
C38_Witness ==
    /\ last = "ProcessExit"
    /\ trigger = Some("uncaughtException")
    /\ readyState = 3
    /\ appPc = "exited"
    /\ exitCode = Some(0)

(* ======================== request timeout: claims ===================== *)

\* C35: every request receives at most one response: when the timeout callback
\* has sent 408 the later completion of the handler sends no second response, and
\* when the handler has responded the timeout callback sends nothing.
C35_AtMostOneResponse ==
    exchange # None =>
        /\ Len(exchange[1].statuses) <= 1
        /\ exchange[1].headersSent <=> (Len(exchange[1].statuses) = 1)

\* the timeout callback answered 408 first and the handler completed afterwards:
\* its res.json threw and 408 is the only response
C35_Witness ==
    /\ exchange # None
    /\ last = "HandlerCompletes"
    /\ exchange[1].timer = "fired"
    /\ exchange[1].handler = "returned"
    /\ exchange[1].statuses = <<408>>
    /\ exchange[1].thrown = 1

(* ========================= sanitizeInput: claims ====================== *)

\* the text contains 'javascript:' in any mix of cases
HasScheme(text) ==
    \E i \in 1..Len(text) : MatchesAt(text, i, JavascriptScheme)

\* C39: for every string the output of sanitizeInput contains no '<', no '>' and
\* no 'javascript:' in any mix of cases, and sanitizeInput applied to its output
\* returns the output; a value that is not a string is returned unchanged.
C39_SanitizeInputCleanAndIdempotent ==
    (api # None /\ api[1].op = "sanitizeInput") =>
        LET call == api[1].body
        IN  IF call.input.type = "string"
            THEN /\ \A i \in 1..Len(call.output.value) :
                       call.output.value[i] \notin {"<", ">"}
                 /\ ~HasScheme(call.output.value)
                 /\ call.again = call.output
            ELSE call.output = call.input

====
